---- MODULE Spec2Model ----
(***************************************************************************)
(* PyQtScope.py: control program for the Tektronix TDS2022B oscilloscope.  *)
(* The model covers the USB session (bulk transport with the 12-byte       *)
(* tagged header when os.name = 'nt', line transport on /dev/usbtmc*       *)
(* otherwise), the set-up sequence of __init__ and the acquisition cycle   *)
(* of read_data.  Byte strings are sequences of integers 0..255; text is   *)
(* the sequence of its ASCII codes.                                        *)
(***************************************************************************)
EXTENDS Integers, Sequences, FiniteSets, TLC

VARIABLES
  os,        \* os.name: "nt" (bulk transport) or "posix" (line transport)
  exports,   \* the arrays data1, data2 hold exports of buffer1, buffer2
  device,    \* self.device: "none" or "open"
  btag,      \* self.btag
  pc,        \* position of the program
  step,      \* index of the command being handled (set-up 1..6, cycle 1..8)
  wire,      \* bytes handed to the last self.device.write
  dev,       \* the instrument's output queue: response to the last command
  result,    \* receive_result: local result, then its return value
  stop,      \* receive_result: local stop
  sca1,      \* self.sca1: <<>> for None, else << label text >>
  sca2,      \* self.sca2
  scam,      \* self.scam
  format1,   \* self.format1: list of field texts
  format2,   \* self.format2
  buffer1,   \* self.buffer1
  buffer2,   \* self.buffer2
  meas,      \* texts of self.meas1 .. self.meas5
  curst,     \* text of self.curst
  curs,      \* texts of self.curs1 .. self.curs4
  delta,     \* text of self.delta
  rd_result, \* read_data: local result (measurement responses)
  cycle,     \* number of read_data invocations so far
  nerrors,   \* number of 'Error: ...' lines printed
  faults,    \* number of I/O errors and malformed answers so far
  lastOp,    \* history: "none", "transmit" or "request": what built wire
  lastCmd,   \* history: the command of the last transmit_command, else <<>>
  nhdr,      \* history: number of bulk headers built so far
  pkts,      \* history: the packets read by the running receive_result
  nreq,      \* history: request-data headers sent by the running receive_result
  calls,     \* history: the last two transport calls, oldest first
  answer     \* history: the instrument's answer to the last query

\* the transport's variables
tvars ==
  << btag, wire, dev, result, stop, lastOp, lastCmd, nhdr, pkts, nreq, calls,
     answer >>

\* the fields read_data writes
fields ==
  << sca1, sca2, scam, format1, format2, buffer1, buffer2, meas, curst, curs,
     delta >>

vars == << os, exports, device, pc, step, rd_result, cycle, nerrors, faults, tvars, fields >>

\* ------------------------------------------------------------------ bounds
MaxHeaders == 262   \* headers built in one behaviour (more than one tag cycle)
MaxPackets == 3     \* packets the harness device uses for one response
MaxPayload == 2     \* payload bytes of one harness packet
MaxCmdLen == 9      \* longest synthetic command of the harness
MaxCalls == 5       \* headers built in one behaviour of the short harness
MaxCycles == 2      \* read_data invocations in one behaviour
MaxFaults == 1      \* I/O errors and malformed answers in one behaviour

\* --------------------------------------------------------- byte strings
Min(a, b) == IF a < b THEN a ELSE b
Max(a, b) == IF a > b THEN a ELSE b

Zeros(n) == [i \in 1..n |-> 0]

Fill(v, n) == [i \in 1..n |-> v]

\* Python slice s[lo:hi] with the indices already given as integers
\* (negative counts from the end, out-of-range is clipped).
PyIndex(i, n) == IF i < 0 THEN Max(n + i, 0) ELSE Min(i, n)

PySlice(s, lo, hi) ==
  LET a == PyIndex(lo, Len(s))
      b == PyIndex(hi, Len(s))
  IN IF a >= b THEN <<>> ELSE SubSeq(s, a + 1, b)

\* s[lo:]
PyFrom(s, lo) == PySlice(s, lo, Len(s))

\* struct '<L': unsigned 32-bit little-endian
PackU32(n) ==
  << n % 256, (n \div 256) % 256, (n \div 65536) % 256, (n \div 16777216) % 256 >>

UnpackU32(b) == b[1] + 256 * b[2] + 65536 * b[3] + 16777216 * b[4]

\* ----------------------------------------------------- bulk transport
ChunkSize == 1024

ReadSize == 1036

\* ~tag & 0xFF on a Python integer: ~tag = -tag - 1, masked to 8 bits
InvTag(tag) == (-tag - 1) % 256

NextTagWrap256(tag) == (tag + 1) % 256

NextTagNoWrap(tag) == tag + 1

\* self.btag = (self.btag % 255) + 1
NextTag(tag) == (tag % 255) + 1

\* struct.pack('BBBx', kind, tag, ~tag & 0xFF) + struct.pack('<LBxxx', size, flag)
PackHeader(kind, tag, size, flag) ==
  << kind, tag, InvTag(tag), 0 >> \o PackU32(size) \o << flag, 0, 0, 0 >>

PaddingTerminated(size) == [i \in 1..(4 - (size % 4)) |-> 0]

\* b'\0' * ((4 - (size % 4)) % 4)
Padding(size) == Zeros((4 - (size % 4)) % 4)

\* the bytes transmit_command writes to endpoint 0x06, tag already advanced
CommandMessage(command, tag) ==
  PackHeader(1, tag, Len(command), 1) \o command \o Padding(Len(command))

RequestMessageEom(tag) == PackHeader(2, tag, ChunkSize, 1)

\* the bytes one iteration of receive_result writes to endpoint 0x06
RequestMessage(tag) == PackHeader(2, tag, ChunkSize, 0)

\* size, stop = struct.unpack_from('<LBxxx', data, 4)
UnpackSize(data) == UnpackU32(SubSeq(data, 5, 8))

UnpackStopReserved(data) == data[10]

UnpackStop(data) == data[9]

PacketPayloadNoOffset(data) == PySlice(data, 12, UnpackSize(data))

\* data[12:size+12]
PacketPayload(data) == PySlice(data, 12, UnpackSize(data) + 12)

\* ------------------------------------------------ the program's commands
\* DESE 1
CmdDESE ==
  << 68, 69, 83, 69, 32, 49 >>

\* *ESE 1
CmdESE ==
  << 42, 69, 83, 69, 32, 49 >>

\* *SRE 32
CmdSRE ==
  << 42, 83, 82, 69, 32, 51, 50 >>

\* HEAD 0
CmdHEAD ==
  << 72, 69, 65, 68, 32, 48 >>

\* DAT INIT
CmdDATINIT ==
  << 68, 65, 84, 32, 73, 78, 73, 84 >>

\* *IDN?
CmdIDN ==
  << 42, 73, 68, 78, 63 >>

\* CH1:SCA?;:CH2:SCA?;:HOR:MAI:SCA?
CmdScale ==
  << 67, 72, 49, 58, 83, 67, 65, 63, 59, 58, 67, 72, 50, 58, 83, 67, 65, 63,
     59, 58, 72, 79, 82, 58, 77, 65, 73, 58, 83, 67, 65, 63 >>

\* WFMPre:CH1?
CmdPre1 ==
  << 87, 70, 77, 80, 114, 101, 58, 67, 72, 49, 63 >>

\* WFMPre:CH2?
CmdPre2 ==
  << 87, 70, 77, 80, 114, 101, 58, 67, 72, 50, 63 >>

\* DAT:SOU CH1;:CURV?
CmdCurve1 ==
  << 68, 65, 84, 58, 83, 79, 85, 32, 67, 72, 49, 59, 58, 67, 85, 82, 86, 63 >>

\* DAT:SOU CH2;:CURV?
CmdCurve2 ==
  << 68, 65, 84, 58, 83, 79, 85, 32, 67, 72, 50, 59, 58, 67, 85, 82, 86, 63 >>

\* MEASU:MEAS1?;:MEASU:MEAS1:VAL?;:MEASU:MEAS2?;:MEASU:MEAS2:VAL?;:MEASU:MEAS3?;:MEASU:MEAS3:VAL?
CmdMeas123 ==
  << 77, 69, 65, 83, 85, 58, 77, 69, 65, 83, 49, 63, 59, 58, 77, 69, 65, 83,
     85, 58, 77, 69, 65, 83, 49, 58, 86, 65, 76, 63, 59, 58, 77, 69, 65, 83,
     85, 58, 77, 69, 65, 83, 50, 63, 59, 58, 77, 69, 65, 83, 85, 58, 77, 69,
     65, 83, 50, 58, 86, 65, 76, 63, 59, 58, 77, 69, 65, 83, 85, 58, 77, 69,
     65, 83, 51, 63, 59, 58, 77, 69, 65, 83, 85, 58, 77, 69, 65, 83, 51, 58,
     86, 65, 76, 63 >>

\* MEASU:MEAS4?;:MEASU:MEAS4:VAL?;:MEASU:MEAS5?;:MEASU:MEAS5:VAL?
CmdMeas45 ==
  << 77, 69, 65, 83, 85, 58, 77, 69, 65, 83, 52, 63, 59, 58, 77, 69, 65, 83,
     85, 58, 77, 69, 65, 83, 52, 58, 86, 65, 76, 63, 59, 58, 77, 69, 65, 83,
     85, 58, 77, 69, 65, 83, 53, 63, 59, 58, 77, 69, 65, 83, 85, 58, 77, 69,
     65, 83, 53, 58, 86, 65, 76, 63 >>

\* CURS?;:CURS:VBA:HPOS1?;:CURS:VBA:HPOS2?;:CURS:HBA:DELT?;:CURS:VBA:DELT?
CmdCurs ==
  << 67, 85, 82, 83, 63, 59, 58, 67, 85, 82, 83, 58, 86, 66, 65, 58, 72, 80,
     79, 83, 49, 63, 59, 58, 67, 85, 82, 83, 58, 86, 66, 65, 58, 72, 80, 79,
     83, 50, 63, 59, 58, 67, 85, 82, 83, 58, 72, 66, 65, 58, 68, 69, 76, 84,
     63, 59, 58, 67, 85, 82, 83, 58, 86, 66, 65, 58, 68, 69, 76, 84, 63 >>

SetupCommands == << CmdDESE, CmdESE, CmdSRE, CmdHEAD, CmdDATINIT, CmdIDN >>

CycleCommands ==
  << CmdScale, CmdPre1, CmdPre2, CmdCurve1, CmdCurve2, CmdMeas123, CmdMeas45, CmdCurs >>

ProgramCommands ==
  { SetupCommands[i] : i \in 1..Len(SetupCommands) }
    \cup { CycleCommands[i] : i \in 1..Len(CycleCommands) }

\* ------------------------------------------------------ transport calls
PushCall(c) == IF Len(calls) < 2 THEN Append(calls, c) ELSE << calls[2], c >>

\* file.readline(): up to and including the first newline, else everything
ReadLine(s) ==
  IF \E i \in 1..Len(s) : s[i] = 10
    THEN SubSeq(s, 1, CHOOSE i \in 1..Len(s) : s[i] = 10 /\ \A j \in 1..(i - 1) : s[j] # 10)
    ELSE s

\* file.read(size): size bytes, fewer when the stream ends
ReadBytes(s, size) == SubSeq(s, 1, Min(size, Len(s)))

\* transmit_command(command) up to self.device.write; written tells whether
\* the write returned (TRUE) or raised (FALSE)
transmit_command(command, written) ==
  /\ IF os = "nt"
       THEN /\ btag' = NextTag(btag)
            /\ wire' = CommandMessage(command, btag')
            /\ nhdr' = nhdr + 1
       ELSE /\ btag' = btag
            /\ wire' = command \o << 10 >>
            /\ nhdr' = nhdr
  /\ lastOp' = "transmit"
  /\ lastCmd' = command
  /\ calls' = PushCall(IF written THEN "tx" ELSE "txfail")

\* receive_result: entry, result = b'' and stop = 0
receive_enter ==
  /\ result' = << >>
  /\ stop' = 0
  /\ pkts' = << >>
  /\ nreq' = 0
  /\ calls' = PushCall("rx")

\* receive_result on 'nt': the write of one loop iteration
receive_request ==
  /\ btag' = NextTag(btag)
  /\ wire' = RequestMessage(btag')
  /\ nhdr' = nhdr + 1
  /\ nreq' = nreq + 1
  /\ lastOp' = "request"
  /\ lastCmd' = << >>

\* receive_result on 'nt': the rest of the iteration, device.read(0x85, 1036)
\* on the packet the device sends
receive_packet(packet) ==
  LET data == ReadBytes(packet, ReadSize)
  IN /\ stop' = UnpackStop(data)
     /\ result' = result \o PacketPayload(data)

\* ------------------------------------------------------------ the device
\* a bulk-in packet: header (message id, tag echo, length, attributes),
\* payload and the alignment bytes that follow it
DevicePacket(tag, p) ==
  << 2, tag, 255 - tag, 0 >> \o PackU32(p.size) \o << p.eom, 0, 0, 0 >>
    \o p.payload \o Zeros(p.pad)

Align(n) == (4 - (n % 4)) % 4

\* the packet a well-formed instrument cuts from its output queue q
QueuePacket(q) ==
  LET n == Min(Len(q), ChunkSize)
  IN [size |-> n, eom |-> IF Len(q) <= ChunkSize THEN 1 ELSE 0,
      payload |-> SubSeq(q, 1, n), pad |-> Align(n)]

\* -------------------------------------------------- session construction
UiText == << >>

\* lines 71-76, 91-93, and the label texts setupUi leaves
InitFields ==
  /\ buffer1 = Zeros(2500)
  /\ buffer2 = Zeros(2500)
  /\ format1 = Fill(<< 48 >>, 11)
  /\ format2 = Fill(<< 48 >>, 11)
  /\ sca1 = << >>
  /\ sca2 = << >>
  /\ scam = << >>
  /\ meas = [i \in 1..5 |-> UiText]
  /\ curst = UiText
  /\ curs = [i \in 1..4 |-> UiText]
  /\ delta = UiText

\* lines 104-105 and the history variables
InitTransport ==
  /\ btag = 0
  /\ wire = << >>
  /\ dev = << >>
  /\ result = << >>
  /\ stop = 0
  /\ lastOp = "none"
  /\ lastCmd = << >>
  /\ nhdr = 0
  /\ pkts = << >>
  /\ nreq = 0
  /\ calls = << >>
  /\ answer = << >>

\* ---------------------------------------- the bulk transport under any caller
\* A caller that calls transmit_command and receive_result in any order on an
\* open bulk session, with any command, against a device that answers with any
\* packets.
HarnessCommands == { Fill(65, n) : n \in 0..MaxCmdLen } \cup ProgramCommands

\* packets of n payload bytes of value v, n up to maxn
HarnessPackets(maxn, values) ==
  { [size |-> n, eom |-> e, payload |-> Fill(v, n), pad |-> Align(n)] :
      n \in 0..maxn, v \in values, e \in {0, 1} }

HarnessInit ==
  /\ os = "nt"
  /\ exports \in BOOLEAN
  /\ device = "open"
  /\ pc = "h_ready"
  /\ step = 0
  /\ rd_result = << >>
  /\ cycle = 0
  /\ nerrors = 0
  /\ faults = 0
  /\ InitTransport
  /\ InitFields

HarnessFrame ==
  UNCHANGED << os, exports, device, step, rd_result, cycle, nerrors, faults, fields >>

HTransmit(maxh, commands) ==
  /\ pc = "h_ready"
  /\ nhdr < maxh
  /\ \E command \in commands : transmit_command(command, TRUE)
  /\ UNCHANGED << pc, dev, answer, result, stop, pkts, nreq >>
  /\ HarnessFrame

HReceiveCall ==
  /\ pc = "h_ready"
  /\ pc' = "h_rx"
  /\ receive_enter
  /\ UNCHANGED << btag, wire, dev, answer, lastOp, lastCmd, nhdr >>
  /\ HarnessFrame

HReceiveLoop(maxh, packets) ==
  /\ pc = "h_rx"
  /\ stop = 0
  /\ nhdr < maxh
  /\ \E p \in packets :
       /\ Len(pkts) + 1 < MaxPackets \/ p.eom # 0
       /\ receive_request
       /\ receive_packet(DevicePacket(btag', p))
       /\ pkts' = Append(pkts, p)
  /\ UNCHANGED << pc, dev, answer, calls >>
  /\ HarnessFrame

HReceiveReturn ==
  /\ pc = "h_rx"
  /\ stop # 0
  /\ pc' = "h_ready"
  /\ result' = << >>
  /\ stop' = 0
  /\ pkts' = << >>
  /\ nreq' = 0
  /\ UNCHANGED << btag, wire, dev, answer, lastOp, lastCmd, nhdr, calls >>
  /\ HarnessFrame

\* long runs (the tag counter wraps), two commands, one-byte packets
TagNext ==
  \/ HTransmit(MaxHeaders, {CmdIDN, CmdDATINIT})
  \/ HReceiveCall
  \/ HReceiveLoop(MaxHeaders, HarnessPackets(1, {1}))
  \/ HReceiveReturn

TagSpec == HarnessInit /\ [][TagNext]_vars

\* short runs, every packet list
BulkNext ==
  \/ HTransmit(MaxCalls, HarnessCommands)
  \/ HReceiveCall
  \/ HReceiveLoop(MaxCalls, HarnessPackets(MaxPayload, {1, 2}))
  \/ HReceiveReturn

BulkSpec == HarnessInit /\ [][BulkNext]_vars

\* ------------------------------ the bulk transport under a device by kind
\* A caller that transmits a query and calls receive_result against a device
\* that is well formed (it sets the end-of-message byte on the last of at most
\* MaxPackets packets) or, as a fault, never sets it.  A call starts only
\* while the headers of a well-formed response are within MaxCalls, and the
\* loop runs on by itself: the thread in receive_result takes its next step.
EomPackets ==
  HarnessPackets(1, {1, 2})
    \cup { [size |-> 1, eom |-> 2, payload |-> << 3 >>, pad |-> Align(1)] }

EomReceiveCall ==
  /\ pc = "h_ready"
  /\ nhdr + MaxPackets <= MaxCalls
  /\ pc' = "h_rx"
  /\ receive_enter
  /\ \E never \in BOOLEAN :
       /\ never => faults < MaxFaults
       /\ faults' = IF never THEN faults + 1 ELSE faults
  /\ UNCHANGED << btag, wire, dev, answer, lastOp, lastCmd, nhdr >>
  /\ UNCHANGED << os, exports, device, step, rd_result, cycle, nerrors, fields >>

EomReceiveLoop ==
  /\ pc = "h_rx"
  /\ stop = 0
  /\ nhdr < MaxCalls
  /\ \E p \in EomPackets :
       /\ IF faults > 0 THEN p.eom = 0
          ELSE Len(pkts) + 1 < MaxPackets \/ p.eom # 0
       /\ receive_request
       /\ receive_packet(DevicePacket(btag', p))
       /\ pkts' = Append(pkts, p)
  /\ UNCHANGED << pc, dev, answer, calls >>
  /\ HarnessFrame

EomNext ==
  \/ HTransmit(MaxCalls, {CmdIDN})
  \/ EomReceiveCall
  \/ EomReceiveLoop
  \/ HReceiveReturn

EomSpec ==
  /\ HarnessInit
  /\ [][EomNext]_vars
  /\ WF_vars(EomReceiveLoop)
  /\ WF_vars(HReceiveReturn)

\* ---------------------------------------------- bulk transport: properties
\* C1: the k-th header built on the bulk transport, by transmit_command or by
\* an iteration of receive_result, carries tag ((k-1) mod 255) + 1 in byte 1,
\* i.e. the tags run 1,2,...,255,1,2,..., and byte 2 is the 8-bit complement
\* of byte 1.
TagSequence ==
  nhdr > 0 =>
    /\ wire[2] = ((nhdr - 1) % 255) + 1
    /\ wire[3] \in 0..255
    /\ wire[2] + wire[3] = 255

TagSequenceWrapped ==
  /\ nhdr = 257
  /\ wire[2] = 2
  /\ lastOp = "request"
  /\ nreq = 2
  /\ calls = << "tx", "rx" >>

\* C2 (as claimed): the stored tag counter is never 0 and never above 255.
TagNeverZero == btag \in 1..255

\* C2 (amended): the stored tag counter is in 0..255 and is 0 exactly as long
\* as no header has been built; from the first header on it is in 1..255.
TagRange ==
  /\ btag \in 0..255
  /\ btag = 0 <=> nhdr = 0

TagBackToOne ==
  /\ nhdr = 256
  /\ btag = 1
  /\ pc = "h_ready"

\* C3 (as claimed): byte 8 of every outbound header is 1, for a send-command
\* header (kind 1, length of the command) and for a request-data header
\* (kind 2, length 1024).
HeaderEomAlwaysOne ==
  lastOp # "none" =>
    /\ wire[9] = 1
    /\ lastOp = "transmit" =>
         wire[1] = 1 /\ UnpackU32(SubSeq(wire, 5, 8)) = Len(lastCmd)
    /\ lastOp = "request" =>
         wire[1] = 2 /\ UnpackU32(SubSeq(wire, 5, 8)) = 1024

\* C3 (amended): a send-command header has kind 1, the length of the command
\* and 1 in byte 8; a request-data header has kind 2, length 1024 and 0 in
\* byte 8, and nothing follows it.
HeaderFlags ==
  /\ lastOp = "transmit" =>
       /\ wire[1] = 1
       /\ UnpackU32(SubSeq(wire, 5, 8)) = Len(lastCmd)
       /\ wire[9] = 1
  /\ lastOp = "request" =>
       /\ wire[1] = 2
       /\ UnpackU32(SubSeq(wire, 5, 8)) = 1024
       /\ wire[9] = 0
       /\ Len(wire) = 12

RequestHeaderSent ==
  /\ lastOp = "request"
  /\ nreq = 2
  /\ wire[1] = 2
  /\ wire[9] = 0

\* C4 (as claimed): the payload after the 12-byte header is the command, then
\* at least one NUL byte, zero-padded to a multiple of 4 bytes.
CommandPayloadTerminated ==
  lastOp = "transmit" =>
    LET payload == SubSeq(wire, 13, Len(wire))
        n == Len(lastCmd)
    IN /\ Len(payload) > n
       /\ Len(payload) % 4 = 0
       /\ SubSeq(payload, 1, n) = lastCmd
       /\ \A i \in (n + 1)..Len(payload) : payload[i] = 0

\* C4 (amended): the payload after the 12-byte header is the command followed
\* by the fewest zero bytes (0 to 3) that make its length a multiple of 4; a
\* command whose length is a multiple of 4 is followed by no byte at all.
CommandPayload ==
  lastOp = "transmit" =>
    LET payload == SubSeq(wire, 13, Len(wire))
        n == Len(lastCmd)
    IN /\ Len(payload) - n \in 0..3
       /\ Len(payload) % 4 = 0
       /\ SubSeq(payload, 1, n) = lastCmd
       /\ \A i \in (n + 1)..Len(payload) : payload[i] = 0

CommandUnpadded ==
  /\ lastOp = "transmit"
  /\ lastCmd = CmdDATINIT
  /\ Len(wire) = 12 + 8

RECURSIVE Concat(_)
Concat(ps) ==
  IF ps = << >> THEN << >> ELSE ps[1].payload \o Concat(Tail(ps))

RECURSIVE SumSizes(_)
SumSizes(ps) ==
  IF ps = << >> THEN 0 ELSE ps[1].size + SumSizes(Tail(ps))

\* C5: while receive_result runs it has sent one request-data header per
\* packet read, every packet before the last read has EOM 0, the loop has
\* ended exactly if the last packet read has EOM set, and the accumulated
\* result (the return value once the loop has ended) is the concatenation of
\* the payloads in arrival order, of length L1 + ... + LN.
Reassembly ==
  pc = "h_rx" =>
    /\ nreq = Len(pkts)
    /\ \A i \in 1..(Len(pkts) - 1) : pkts[i].eom = 0
    /\ stop # 0 <=> (pkts # << >> /\ pkts[Len(pkts)].eom # 0)
    /\ result = Concat(pkts)
    /\ Len(result) = SumSizes(pkts)

ThreePacketsReassembled ==
  /\ pc = "h_rx"
  /\ stop # 0
  /\ Len(pkts) = 3
  /\ pkts[1].payload = << 1, 1 >>
  /\ pkts[2].payload = << 2 >>
  /\ pkts[3].payload = << 1, 1 >>
  /\ result = << 1, 1, 2, 1, 1 >>

\* ------------------------------------------------------------------ text
\* the length of the well-formed UTF-8 sequence at the head of the bytes b
\* (no overlong form, no surrogate, nothing above U+10FFFF), 0 if there is none
Utf8Length(b) ==
  LET Cont(i) == i <= Len(b) /\ b[i] \in 128..191
      In2(lo, hi) == Len(b) >= 2 /\ b[2] \in lo..hi
  IN IF b = << >> THEN 0
     ELSE IF b[1] < 128 THEN 1
     ELSE IF b[1] \in 194..223 /\ Cont(2) THEN 2
     ELSE IF b[1] = 224 /\ In2(160, 191) /\ Cont(3) THEN 3
     ELSE IF b[1] \in (225..236) \cup (238..239) /\ Cont(2) /\ Cont(3) THEN 3
     ELSE IF b[1] = 237 /\ In2(128, 159) /\ Cont(3) THEN 3
     ELSE IF b[1] = 240 /\ In2(144, 191) /\ Cont(3) /\ Cont(4) THEN 4
     ELSE IF b[1] \in 241..243 /\ Cont(2) /\ Cont(3) /\ Cont(4) THEN 4
     ELSE IF b[1] = 244 /\ In2(128, 143) /\ Cont(3) /\ Cont(4) THEN 4
     ELSE 0

\* whether bytes.decode('utf-8') returns (TRUE) or raises UnicodeDecodeError
\* (FALSE).  The decoded text is kept as its UTF-8 bytes: splitting at ';',
\* stripping '"' and joining with '%s' give the same bytes either way.
\* The bytes decode if and only if every byte that is no continuation byte
\* (128..191) begins a well-formed sequence and every continuation byte
\* belongs to the sequence begun by the nearest such byte before it.
Utf8Decodes(b) ==
  LET From(i) == SubSeq(b, i, IF i + 3 < Len(b) THEN i + 3 ELSE Len(b))
  IN \A i \in 1..Len(b) :
       IF b[i] \in 128..191
         THEN \E j \in 1..3 :
                /\ i - j >= 1
                /\ b[i - j] \notin 128..191
                /\ \A k \in (i - j + 1)..(i - 1) : b[k] \in 128..191
                /\ Utf8Length(From(i - j)) > j
         ELSE Utf8Length(From(i)) > 0

\* the characters (code points) of a text kept as UTF-8 bytes
RECURSIVE CodePoints(_)
CodePoints(b) ==
  IF b = << >> THEN << >>
  ELSE LET n == Utf8Length(b)
           cp == CASE n = 2 -> (b[1] - 192) * 64 + (b[2] - 128)
                   [] n = 3 -> (b[1] - 224) * 4096 + (b[2] - 128) * 64 + (b[3] - 128)
                   [] n = 4 -> (b[1] - 240) * 262144 + (b[2] - 128) * 4096
                                 + (b[3] - 128) * 64 + (b[4] - 128)
                   [] OTHER -> b[1]
       IN << cp >> \o CodePoints(SubSeq(b, (IF n = 0 THEN 1 ELSE n) + 1, Len(b)))

\* str.rsplit(sep) without a limit: the fields between the separators
RECURSIVE Split(_, _)
Split(s, sep) ==
  IF \E i \in 1..Len(s) : s[i] = sep
    THEN LET i == CHOOSE i \in 1..Len(s) : s[i] = sep /\ \A j \in 1..(i - 1) : s[j] # sep
         IN << SubSeq(s, 1, i - 1) >> \o Split(SubSeq(s, i + 1, Len(s)), sep)
    ELSE << s >>

\* receive_result()[:-1].decode('utf-8').rsplit(';') on the bytes r, when the
\* decoding succeeds
Fields(r) == Split(PySlice(r, 0, -1), 59)

IsDigit(c) == c \in 48..57

\* the white space float() skips at both ends of the text: that of C
IsSpace(c) == c \in (9..13) \cup {32}

\* the characters above ASCII that float() takes as a space
UnicodeSpaces ==
  {133, 160, 5760} \cup (8192..8202) \cup {8232, 8233, 8239, 8287, 12288}

\* the digit zero of each run of ten decimal digits above ASCII
DecimalZeros ==
  {1632, 1776, 1984, 2406, 2534, 2662, 2790, 2918, 3046, 3174, 3302, 3430,
   3558, 3664, 3792, 3872, 4160, 4240, 6112, 6160, 6470, 6608, 6784, 6800,
   6992, 7088, 7232, 7248, 42528, 43216, 43264, 43472, 43504, 43600, 44016,
   65296, 66720, 68912, 69734, 69872, 69942, 70096, 70384, 70736, 70864,
   71248, 71360, 71472, 71904, 72016, 72784, 73040, 73120, 92768, 92864,
   93008, 120782, 120792, 120802, 120812, 120822, 123200, 123632, 125264,
   130032}

\* what float() makes of a text before it parses it: an ASCII text is taken
\* as it is; in any other text a character below 127 is kept, a space
\* becomes ' ', a decimal digit its ASCII digit and anything else '?'
AsciiForm(text) ==
  LET Ascii(c, zeros) ==
        IF c < 127 THEN c
        ELSE IF c \in UnicodeSpaces THEN 32
        ELSE IF zeros # { } THEN 48 + c - (CHOOSE z \in zeros : TRUE)
        ELSE 63
      AsciiOf(cps) ==
        [i \in 1..Len(cps) |-> Ascii(cps[i], { z \in DecimalZeros : cps[i] \in z..(z + 9) })]
  IN IF \A i \in 1..Len(text) : text[i] < 128 THEN text ELSE AsciiOf(CodePoints(text))

\* the text without the white space at its ends
RECURSIVE StripLeft(_)
StripLeft(s) == IF s # << >> /\ IsSpace(s[1]) THEN StripLeft(Tail(s)) ELSE s

RECURSIVE StripRight(_)
StripRight(s) ==
  IF s # << >> /\ IsSpace(s[Len(s)]) THEN StripRight(SubSeq(s, 1, Len(s) - 1)) ELSE s

Strip(s) == StripRight(StripLeft(s))

\* a run of digits in which single underscores may separate digits
IsDigitRun(s) ==
  /\ s # << >>
  /\ IsDigit(s[1])
  /\ IsDigit(s[Len(s)])
  /\ \A i \in 1..Len(s) : IsDigit(s[i]) \/ s[i] = 95
  /\ \A i \in 1..(Len(s) - 1) : ~(s[i] = 95 /\ s[i + 1] = 95)

\* the value of a digit run, and the number of its digits
RECURSIVE DigitsValue(_)
DigitsValue(s) ==
  IF s = << >> THEN 0
  ELSE IF s[Len(s)] = 95 THEN DigitsValue(SubSeq(s, 1, Len(s) - 1))
  ELSE 10 * DigitsValue(SubSeq(s, 1, Len(s) - 1)) + (s[Len(s)] - 48)

DigitCount(s) == Cardinality({ i \in 1..Len(s) : IsDigit(s[i]) })

Lower(c) == IF c \in 65..90 THEN c + 32 ELSE c

LowerText(s) == [i \in 1..Len(s) |-> Lower(s[i])]

HasSign(s) == s # << >> /\ s[1] \in {43, 45}

Unsigned(s) == IF HasSign(s) THEN Tail(s) ELSE s

SignOf(s) == IF s # << >> /\ s[1] = 45 THEN -1 ELSE 1

\* position of the exponent letter in an unsigned numeral, 0 if there is none
ExpAt(u) ==
  IF \E i \in 1..Len(u) : u[i] \in {69, 101}
    THEN CHOOSE i \in 1..Len(u) : u[i] \in {69, 101} /\ \A j \in 1..(i - 1) : u[j] \notin {69, 101}
    ELSE 0

MantissaText(u) == IF ExpAt(u) = 0 THEN u ELSE SubSeq(u, 1, ExpAt(u) - 1)

ExponentText(u) == IF ExpAt(u) = 0 THEN << >> ELSE SubSeq(u, ExpAt(u) + 1, Len(u))

DotAt(m) ==
  IF \E i \in 1..Len(m) : m[i] = 46
    THEN CHOOSE i \in 1..Len(m) : m[i] = 46 /\ \A j \in 1..(i - 1) : m[j] # 46
    ELSE 0

IntText(m) == IF DotAt(m) = 0 THEN m ELSE SubSeq(m, 1, DotAt(m) - 1)

FracText(m) == IF DotAt(m) = 0 THEN << >> ELSE SubSeq(m, DotAt(m) + 1, Len(m))

IsMantissa(m) ==
  /\ IntText(m) = << >> \/ IsDigitRun(IntText(m))
  /\ FracText(m) = << >> \/ IsDigitRun(FracText(m))
  /\ IntText(m) # << >> \/ FracText(m) # << >>

IsDecimal(u) ==
  /\ IsMantissa(MantissaText(u))
  /\ ExpAt(u) = 0 \/ IsDigitRun(Unsigned(ExponentText(u)))

\* "inf", "infinity" and "nan" in any case
InfWords == { << 105, 110, 102 >>, << 105, 110, 102, 105, 110, 105, 116, 121 >> }

NanWord == << 110, 97, 110 >>

\* whether float(text) returns (TRUE) or raises ValueError (FALSE)
IsNumeral(u) == IsDecimal(u) \/ LowerText(u) \in InfWords \/ LowerText(u) = NanWord

IsFloat(text) == IsNumeral(Unsigned(Strip(AsciiForm(text))))

\* m without its trailing decimal zeros, and how many were removed
RECURSIVE TrailingZeros(_)
TrailingZeros(m) == IF m # 0 /\ m % 10 = 0 THEN 1 + TrailingZeros(m \div 10) ELSE 0

RECURSIVE Pow10(_)
Pow10(n) == IF n = 0 THEN 1 ELSE 10 * Pow10(n - 1)

\* --------------------------------------------------------------- numbers
\* the decimal digits of a positive integer, as text
RECURSIVE DigitsOf(_)
DigitsOf(m) == IF m < 10 THEN << 48 + m >> ELSE DigitsOf(m \div 10) \o << 48 + (m % 10) >>

\* floor(log10(abs(x))) of a non-zero number
Magnitude(x) == Len(DigitsOf(x.m)) + x.e - 1

IsZero(x) == x.kind = "num" /\ x.m = 0

AbsAbove(x, k) ==
  \/ x.kind = "inf"
  \/ /\ x.kind = "num"
     /\ x.m # 0
     /\ \/ Magnitude(x) > k
        \/ Magnitude(x) = k /\ x.m # Pow10(Len(DigitsOf(x.m)) - 1)

\* abs(x) >= 10^k
AbsAtLeast(x, k) ==
  \/ x.kind = "inf"
  \/ x.kind = "num" /\ x.m # 0 /\ Magnitude(x) >= k

\* abs(x) > 9.9E9
AboveSentinel(x) ==
  \/ x.kind = "inf"
  \/ /\ x.kind = "num"
     /\ x.m # 0
     /\ \/ Magnitude(x) > 9
        \/ Magnitude(x) = 9 /\ x.m * 10 > 99 * Pow10(Len(DigitsOf(x.m)) - 1)

\* ------------------------------------------------ binary floating point
\* A float is kept as the decimal the instrument sent while the decimal tells
\* what the program does with it.  Where it does not, the float is computed
\* as the interpreter computes it: float() gives the nearest binary64 number
\* (M * 2^E with M below 2^53 and E from -1074 to 971, ties to the even M,
\* inf from 2^1024 - 2^970 on, 0.0 up to 2^-1075), and so does the product.
\* Natural numbers of any size are the sequences of their digits in base
\* 1000, lowest first, without zeros at the top.
DecBase == 1000

\* digit k of a, 0 above its highest
Limb(a, k) == IF k \in 1..Len(a) THEN a[k] ELSE 0

\* The natural number with the coefficients w (below 2^31, lowest first) of
\* the powers of the base.  Carried cuts each coefficient to a digit and adds
\* the rest of it to the two coefficients above: applied twice, no coefficient
\* is above the base + 3.  Rippled then carries 1 into a position if a
\* position below it holds the base or more and every position between them
\* holds the base - 1.  Trimmed leaves out the zeros above the highest digit
\* that is not zero.  Each pass is a value before the next pass starts.
Norm(w) ==
  LET Carried(u) ==
        [k \in 1..(Len(u) + 2) |->
           (Limb(u, k) % DecBase) + ((Limb(u, k - 1) \div DecBase) % DecBase)
             + (Limb(u, k - 2) \div (DecBase * DecBase))]
      Rippled(c) ==
        [k \in 1..(Len(c) + 1) |->
           (Limb(c, k)
              + (IF \E j \in 1..(k - 1) :
                      c[j] >= DecBase /\ \A l \in (j + 1)..(k - 1) : c[l] = DecBase - 1
                   THEN 1 ELSE 0)) % DecBase]
      Trimmed(d) ==
        SubSeq(d, 1, Cardinality({ k \in 1..Len(d) : \E j \in k..Len(d) : d[j] # 0 }))
  IN CHOOSE n \in { Trimmed(d) :
                      d \in { SubSeq(Rippled(c), 1, Len(c) + 1) :
                              c \in { SubSeq(Carried(u), 1, Len(u) + 2) :
                                      u \in { SubSeq(Carried(w), 1, Len(w) + 2) } } } } :
       TRUE

\* a * b, b # << >>: coefficient k is the sum of a[i] * b[k + 1 - i] over the
\* digits i of a that meet a digit of b, summed by halves
BigMul(a, b) ==
  LET RECURSIVE Conv(_, _, _)
      Conv(k, lo, hi) ==
        IF lo > hi THEN 0
        ELSE IF lo = hi THEN a[lo] * b[k + 1 - lo]
        ELSE Conv(k, lo, (lo + hi) \div 2) + Conv(k, (lo + hi) \div 2 + 1, hi)
  IN Norm([k \in 1..(Len(a) + Len(b) - 1) |->
             Conv(k, Max(1, k + 1 - Len(b)), Min(Len(a), k))])

\* b^n for b = 2 or 5: the product of its powers to the halves of n
RECURSIVE BigPow(_, _)
BigPow(b, n) ==
  IF n <= 4 THEN << b^n >>
  ELSE CHOOSE p \in { BigMul(x, y) :
                        x \in { BigPow(b, n \div 2) }, y \in { BigPow(b, n - n \div 2) } } :
         TRUE

\* -1, 0 or 1 as a < b, a = b or a > b
BigCmp(a, b) ==
  LET Above(x, y) ==
        \/ Len(x) > Len(y)
        \/ /\ Len(x) = Len(y)
           /\ \E k \in 1..Len(x) : x[k] > y[k] /\ \A j \in (k + 1)..Len(x) : x[j] = y[j]
  IN IF a = b THEN 0 ELSE IF Above(a, b) THEN 1 ELSE -1

\* the number of decimal digits of a
Digits(a) ==
  IF a = << >> THEN 0
  ELSE 3 * (Len(a) - 1) + Cardinality({ i \in 0..2 : 10^i <= a[Len(a)] })

\* a * 10^s to the nearest natural number.  For s < 0 it is a without its
\* last -s decimal digits, and one more if the highest digit cut is above 5,
\* or is 5 and a digit below it is not 0 or the last digit kept is odd.
Scaled(a, s) ==
  LET Cut == (Limb(a, (-s - 1) \div 3 + 1) \div 10^((-s - 1) % 3)) % 10
      More ==
        \E k \in 1..Len(a) :
          \/ k - 1 < (-s - 1) \div 3 /\ a[k] # 0
          \/ k - 1 = (-s - 1) \div 3 /\ a[k] % 10^((-s - 1) % 3) # 0
      Odd == (Limb(a, (-s) \div 3 + 1) \div 10^((-s) % 3)) % 2 = 1
      Kept(k, w, r) ==
        (Limb(a, k + w) \div 10^r) + (Limb(a, k + w + 1) % 10^r) * 10^(3 - r)
  IN IF s = 0 \/ a = << >> THEN a
     ELSE Norm(IF s > 0
                 THEN [k \in 1..(Len(a) + s \div 3) |-> Limb(a, k - s \div 3) * 10^(s % 3)]
                 ELSE [k \in 1..Max(1, Len(a) - (-s) \div 3) |->
                         Kept(k, (-s) \div 3, (-s) % 3)
                           + (IF k = 1 /\ (Cut > 5 \/ (Cut = 5 /\ (More \/ Odd)))
                                THEN 1 ELSE 0)])

\* The binary64 number for n * 10^point / 2^more over 2^first, more than 0:
\* [kind, M, E], of kind "fin" for M * 2^E with M below 2^53, "zero" or "inf".
\* M is the number to the nearest, and given the bits it has above 53, it is
\* taken over as many powers of two more until it has none.
RECURSIVE Settled(_, _, _, _)
Settled(n, first, point, more) ==
  CHOOSE y \in
    { IF Mo[2] > 0 THEN Settled(n, first, point, more + Mo[2])
      ELSE IF Mo[1] = << >> THEN [kind |-> "zero", M |-> << >>, E |-> 0]
      ELSE IF first + more > 971 THEN [kind |-> "inf", M |-> << >>, E |-> 0]
      ELSE [kind |-> "fin", M |-> Mo[1], E |-> first + more] :
        Mo \in { << M, Cardinality({ t \in 53..59 : BigCmp(BigPow(2, t), M) <= 0 }) >> :
                   M \in { Scaled(BigMul(n, << 5^more >>), point - more) } } } :
    TRUE

\* The binary64 number nearest to a * 2^g * 10^h (a > 0).  First is at most
\* 52 below floor(log2) of the number (and not more than 5 lower), or -1074,
\* the exponent of the smallest floats.  The number over 2^First is a natural
\* number n and a power of ten: over a power of two is times the power of
\* five, with the decimal point moved.  Each natural number is a value before
\* the next is computed.
Binary64(a, g, h) ==
  LET Log2Below(n) ==
        IF n >= 0 THEN (n * 3321) \div 1000 ELSE -((-n * 3322 + 999) \div 1000)
      First == Max(g + Log2Below(Digits(a) - 1 + h) - 52, -1074)
  IN CHOOSE y \in { Settled(n, First, IF g >= First THEN h ELSE h - (First - g), 0) :
                      n \in { BigMul(a, p) :
                              p \in { BigPow(IF g >= First THEN 2 ELSE 5,
                                             IF g >= First THEN g - First ELSE First - g) } } } :
       TRUE

\* float of the decimal m * 10^e, m > 0: above 10^309 it is inf and below
\* 10^-325 it is 0.0
DoubleOf(m, e) ==
  IF Len(DigitsOf(m)) + e - 1 > 308 THEN [kind |-> "inf", M |-> << >>, E |-> 0]
  ELSE IF Len(DigitsOf(m)) + e - 1 < -325 THEN [kind |-> "zero", M |-> << >>, E |-> 0]
  ELSE CHOOSE y \in { Binary64(a, 0, e) :
                        a \in { SubSeq([k \in 1..4 |-> (m \div 1000^(k - 1)) % 1000],
                                       1, (Len(DigitsOf(m)) + 2) \div 3) } } :
         TRUE

\* a number: the float of the decimal sign * m * 10^e (kind "num", m without
\* trailing zeros), times the float 1e<by> (float() gives by = 0, and the
\* formatter scales by a power of ten before it prints); or "inf"; or "nan".
\* The float of a decimal of 301 digits or less before the point, and of 299
\* zeros or less after it, is neither inf nor 0.0.
Number(sign, m, e) ==
  IF m = 0 THEN [kind |-> "num", sign |-> sign, m |-> 0, e |-> 0, by |-> 0]
  ELSE CHOOSE x \in
         { IF kind = "zero" THEN [kind |-> "num", sign |-> sign, m |-> 0, e |-> 0, by |-> 0]
           ELSE IF kind = "inf" THEN [kind |-> "inf", sign |-> sign, m |-> 0, e |-> 0, by |-> 0]
           ELSE [kind |-> "num", sign |-> sign,
                 m |-> m \div Pow10(TrailingZeros(m)), e |-> e + TrailingZeros(m), by |-> 0] :
             kind \in { IF Len(DigitsOf(m)) + e - 1 \in -300..300 THEN "fin"
                        ELSE DoubleOf(m, e).kind } } :
         TRUE

\* the number that the numeral t stands for
NumeralValue(t) ==
  LET u == Unsigned(t)
      mt == MantissaText(u)
      et == ExponentText(u)
      digits == IntText(mt) \o FracText(mt)
  IN IF LowerText(u) \in InfWords
       THEN [kind |-> "inf", sign |-> SignOf(t), m |-> 0, e |-> 0, by |-> 0]
     ELSE IF LowerText(u) = NanWord
       THEN [kind |-> "nan", sign |-> 1, m |-> 0, e |-> 0, by |-> 0]
     ELSE Number(SignOf(t), DigitsValue(digits),
                 SignOf(et) * DigitsValue(Unsigned(et)) - DigitCount(FracText(mt)))

\* float(text), for a text float() accepts
Float(text) == NumeralValue(Strip(AsciiForm(text)))

\* the float product v * c
Times(v, c) ==
  IF {v.kind, c.kind} = {"zero", "inf"} THEN [kind |-> "nan", M |-> << >>, E |-> 0]
  ELSE IF "inf" \in {v.kind, c.kind} THEN [kind |-> "inf", M |-> << >>, E |-> 0]
  ELSE IF "zero" \in {v.kind, c.kind} THEN [kind |-> "zero", M |-> << >>, E |-> 0]
  ELSE CHOOSE y \in { Binary64(p, v.E + c.E, 0) : p \in { BigMul(v.M, c.M) } } : TRUE

\* What '%g' prints of the float x * 1e<k>, x = float of m * 10^e, m > 0
\* (x * 1e0 is x): [kind, m, e], of kind "num" for the 6 significant digits
\* m * 10^e, with m of at most 6 digits and no trailing zero (m = 0 for 0.0),
\* or "inf" or "nan".  Compact(n, t) is n * 10^t with n free of trailing
\* zeros.  Between 1e-300 and 1e300 the float is within 2^-51 of the decimal
\* m * 10^(e + k), so the digits are those of the decimal, Cut to 6, unless it
\* is half way between two numbers of 6 digits (Tie).  There, and out of that
\* range, the digits are those of the float itself: the floats f[1] and f[2],
\* then their product y, then the power p of 5 (or 2) that makes y.M * p the
\* digits n of y, then its first 6 digits q, to the nearest and to the even
\* digit from half way, and the number of digits left out; each is a value
\* before the next is computed.
RoundSix(m, e, k) ==
  LET Compact(n, t) ==
        [kind |-> "num", m |-> n \div Pow10(TrailingZeros(n)), e |-> t + TrailingZeros(n)]
      High == Len(DigitsOf(m)) + e - 1
      Drop == Len(DigitsOf(m)) - 6
      Tie == Drop > 0 /\ m % Pow10(Drop) = 5 * Pow10(Drop - 1)
      Cut ==
        Compact(m \div Pow10(Drop) + (IF m % Pow10(Drop) > 5 * Pow10(Drop - 1) THEN 1 ELSE 0),
                e + k + Drop)
      Shown(y, q, drop) ==
        IF y.kind = "zero" THEN [kind |-> "num", m |-> 0, e |-> 0]
        ELSE IF y.kind # "fin" THEN [kind |-> y.kind, m |-> 0, e |-> 0]
        ELSE Compact(Limb(q, 1) + 1000 * Limb(q, 2) + 1000000 * Limb(q, 3),
                     Min(y.E, 0) + drop)
  IN IF High \in -300..300 /\ k \in -300..300 /\ High + k \in -300..300 /\ ~Tie
       THEN (IF Drop > 0 THEN Cut ELSE Compact(m, e + k))
     ELSE CHOOSE r \in
            { Shown(yq[1], yq[2], yq[3]) :
                yq \in { << yn[1], Scaled(yn[2], -Max(Digits(yn[2]) - 6, 0)),
                            Max(Digits(yn[2]) - 6, 0) >> :
                  yn \in { << yp[1], BigMul(yp[1].M, yp[2]) >> :
                    yp \in { << y, BigPow(IF y.E < 0 THEN 5 ELSE 2,
                                          IF y.E < 0 THEN -y.E ELSE y.E) >> :
                      y \in { Times(f[1], f[2]) :
                        f \in { [i \in 1..2 |-> DoubleOf(IF i = 1 THEN m ELSE 1,
                                                         IF i = 1 THEN e ELSE k)] } } } } } } :
            TRUE

\* x * 1e<k>
Scale(x, k) == IF x.kind = "num" /\ x.m # 0 THEN [x EXCEPT !.by = x.by + k] ELSE x

\* the digits ds times 10^e in positional notation
FixedText(ds, e) ==
  LET d == Len(ds)
  IN IF e >= 0 THEN ds \o Fill(48, e)
     ELSE IF d > -e THEN SubSeq(ds, 1, d + e) \o << 46 >> \o SubSeq(ds, d + e + 1, d)
     ELSE << 48, 46 >> \o Fill(48, -e - d) \o ds

\* the digits ds times 10^e in exponent notation; the exponent x is printed
\* e+XX or e-XX, with two digits at least
ExponentialText(ds, e) ==
  LET ExponentPart(x) ==
        << 101, IF x < 0 THEN 45 ELSE 43 >>
          \o (IF x \in -9..9 THEN << 48 >> ELSE << >>) \o DigitsOf(IF x < 0 THEN -x ELSE x)
  IN << ds[1] >> \o (IF Len(ds) > 1 THEN << 46 >> \o Tail(ds) ELSE << >>)
       \o ExponentPart(Len(ds) + e - 1)

\* '%g' % x without the sign: x to 6 significant digits ds, without trailing
\* zeros, in exponent notation if the exponent is below -4 or at least 6
FormatAbs(x) ==
  LET Text(ds, e) ==
        IF Len(ds) + e - 1 < -4 \/ Len(ds) + e - 1 >= 6
          THEN ExponentialText(ds, e)
          ELSE FixedText(ds, e)
      SixDigits(r) ==
        IF r.kind = "inf" THEN << 105, 110, 102 >>
        ELSE IF r.kind = "nan" THEN << 110, 97, 110 >>
        ELSE IF r.m = 0 THEN << 48 >>
        ELSE Text(DigitsOf(r.m), r.e)
  IN IF x.kind = "inf" THEN << 105, 110, 102 >>
     ELSE IF x.kind = "nan" THEN << 110, 97, 110 >>
     ELSE IF x.m = 0 THEN << 48 >>
     ELSE SixDigits(RoundSix(x.m, x.e, x.by))

\* '%g' % x
FormatG(x) == (IF x.sign < 0 THEN << 45 >> ELSE << >>) \o FormatAbs(x)

\* '% g' % x
FormatSpaceG(x) == (IF x.sign < 0 THEN << 45 >> ELSE << 32 >>) \o FormatAbs(x)

\* metric_prefix(x), lines 43-59
metric_prefix(x) ==
  IF IsZero(x) THEN << 48, 32 >>
  ELSE IF AbsAtLeast(x, 6) THEN FormatG(Scale(x, -6)) \o << 32, 77 >>
  ELSE IF AbsAtLeast(x, 3) THEN FormatG(Scale(x, -3)) \o << 32, 107 >>
  ELSE IF AbsAtLeast(x, 0) THEN FormatSpaceG(x) \o << 32 >>
  ELSE IF AbsAtLeast(x, -3) THEN FormatG(Scale(x, 3)) \o << 32, 109 >>
  ELSE IF AbsAtLeast(x, -6) THEN FormatG(Scale(x, 6)) \o << 32, 117 >>
  ELSE IF AbsAtLeast(x, -9) THEN FormatG(Scale(x, 9)) \o << 32, 110 >>
  ELSE FormatG(x) \o << 32 >>

\* ------------------------------------------------- the instrument's answers
\* Answers by command of the cycle.  Good answers are what a TDS2022B sends;
\* bad answers are malformed ones.  acq is the number of the acquisition the
\* answer belongs to (the cycle that asks for it).
\* the texts of the answers, by name
Texts ==
  [
    \* TEKTRONIX,TDS 2022B,0,CF:91.1CT FV:v22.11\n
    IdnText |-> << 84, 69, 75, 84, 82, 79, 78, 73, 88, 44, 84, 68, 83, 32, 50,
      48, 50, 50, 66, 44, 48, 44, 67, 70, 58, 57, 49, 46, 49, 67, 84, 32, 70,
      86, 58, 118, 50, 50, 46, 49, 49, 10 >>,
    \* 1.0E0;2.0E-1;5.0E-4\n
    ScaleOk1 |-> << 49, 46, 48, 69, 48, 59, 50, 46, 48, 69, 45, 49, 59, 53,
      46, 48, 69, 45, 52, 10 >>,
    \* 5.0E-2;1.0E1;2.5E-6\n
    ScaleOk2 |-> << 53, 46, 48, 69, 45, 50, 59, 49, 46, 48, 69, 49, 59, 50,
      46, 53, 69, 45, 54, 10 >>,
    \* abc;2.0E-1;5.0E-4\n
    ScaleBadFirst |-> << 97, 98, 99, 59, 50, 46, 48, 69, 45, 49, 59, 53, 46,
      48, 69, 45, 52, 10 >>,
    \* 2.0E0;5.0E-1\n
    ScaleShort |-> << 50, 46, 48, 69, 48, 59, 53, 46, 48, 69, 45, 49, 10 >>,
    \* a byte that is no UTF-8, then ;\n
    BadUtf8 |-> << 255, 59, 10 >>,
    \* "Ch1";Y;2.0E-6;0;-5.0E-3;"s";4.0E-2;0.0E0;
    PreHead1 |-> << 34, 67, 104, 49, 34, 59, 89, 59, 50, 46, 48, 69, 45, 54,
      59, 48, 59, 45, 53, 46, 48, 69, 45, 51, 59, 34, 115, 34, 59, 52, 46, 48,
      69, 45, 50, 59, 48, 46, 48, 69, 48, 59 >>,
    \* "Ch2";Y;2.0E-6;0;-5.0E-3;"s";2.0E-1;0.0E0;
    PreHead2 |-> << 34, 67, 104, 50, 34, 59, 89, 59, 50, 46, 48, 69, 45, 54,
      59, 48, 59, 45, 53, 46, 48, 69, 45, 51, 59, 34, 115, 34, 59, 50, 46, 48,
      69, 45, 49, 59, 48, 46, 48, 69, 48, 59 >>,
    \* .0E0;"V";2500\n
    PreTail |-> << 46, 48, 69, 48, 59, 34, 86, 34, 59, 50, 53, 48, 48, 10 >>,
    \* "Ch1";Y\n
    PreShort |-> << 34, 67, 104, 49, 34, 59, 89, 10 >>,
    \* #42500
    CurveHead |-> << 35, 52, 50, 53, 48, 48 >>,
    \* FREQ;"Hz";CH1;1.0E3;NONE;"V";CH1;9.9E37;PK2PK;"V";CH2;9.9E37\n
    Meas123Ok |-> << 70, 82, 69, 81, 59, 34, 72, 122, 34, 59, 67, 72, 49, 59,
      49, 46, 48, 69, 51, 59, 78, 79, 78, 69, 59, 34, 86, 34, 59, 67, 72, 49,
      59, 57, 46, 57, 69, 51, 55, 59, 80, 75, 50, 80, 75, 59, 34, 86, 34, 59,
      67, 72, 50, 59, 57, 46, 57, 69, 51, 55, 10 >>,
    \* FREQ;"Hz";CH1;2.0E3;MEAN;"V";CH1;???;PK2PK;"V";CH2;2.0E0\n
    Meas123Bad |-> << 70, 82, 69, 81, 59, 34, 72, 122, 34, 59, 67, 72, 49, 59,
      50, 46, 48, 69, 51, 59, 77, 69, 65, 78, 59, 34, 86, 34, 59, 67, 72, 49,
      59, 63, 63, 63, 59, 80, 75, 50, 80, 75, 59, 34, 86, 34, 59, 67, 72, 50,
      59, 50, 46, 48, 69, 48, 10 >>,
    \* MEAN;"V";CH2;-2.5E-3;NONE;"s";CH1;0.0E0\n
    Meas45Ok |-> << 77, 69, 65, 78, 59, 34, 86, 34, 59, 67, 72, 50, 59, 45,
      50, 46, 53, 69, 45, 51, 59, 78, 79, 78, 69, 59, 34, 115, 34, 59, 67, 72,
      49, 59, 48, 46, 48, 69, 48, 10 >>,
    \* MEAN;"V";CH2\n
    Meas45Short |-> << 77, 69, 65, 78, 59, 34, 86, 34, 59, 67, 72, 50, 10 >>,
    \* OFF;CH1;SECONDS;0.0E0;0.0E0;VOLTS;0.0E0;0.0E0;9.9E37;9.9E37;0.0E0;0.0E0\n
    CursOff |-> << 79, 70, 70, 59, 67, 72, 49, 59, 83, 69, 67, 79, 78, 68, 83,
      59, 48, 46, 48, 69, 48, 59, 48, 46, 48, 69, 48, 59, 86, 79, 76, 84, 83,
      59, 48, 46, 48, 69, 48, 59, 48, 46, 48, 69, 48, 59, 57, 46, 57, 69, 51,
      55, 59, 57, 46, 57, 69, 51, 55, 59, 48, 46, 48, 69, 48, 59, 48, 46, 48,
      69, 48, 10 >>,
    \* HBARS;CH1;SECONDS;-1.0E-3;1.0E-3;VOLTS;-2.0E0;1.5E0;9.9E37;9.9E37;3.5E0;2.0E-3\n
    CursHbars |-> << 72, 66, 65, 82, 83, 59, 67, 72, 49, 59, 83, 69, 67, 79,
      78, 68, 83, 59, 45, 49, 46, 48, 69, 45, 51, 59, 49, 46, 48, 69, 45, 51,
      59, 86, 79, 76, 84, 83, 59, 45, 50, 46, 48, 69, 48, 59, 49, 46, 53, 69,
      48, 59, 57, 46, 57, 69, 51, 55, 59, 57, 46, 57, 69, 51, 55, 59, 51, 46,
      53, 69, 48, 59, 50, 46, 48, 69, 45, 51, 10 >>,
    \* VBARS;CH2;SECONDS;-1.0E-3;1.0E-3;VOLTS;-2.0E0;1.5E0;5.0E-1;9.9E37;3.5E0;2.0E-3\n
    CursVbars |-> << 86, 66, 65, 82, 83, 59, 67, 72, 50, 59, 83, 69, 67, 79,
      78, 68, 83, 59, 45, 49, 46, 48, 69, 45, 51, 59, 49, 46, 48, 69, 45, 51,
      59, 86, 79, 76, 84, 83, 59, 45, 50, 46, 48, 69, 48, 59, 49, 46, 53, 69,
      48, 59, 53, 46, 48, 69, 45, 49, 59, 57, 46, 57, 69, 51, 55, 59, 51, 46,
      53, 69, 48, 59, 50, 46, 48, 69, 45, 51, 10 >>,
    \* WAVEFORM;CH1;SECONDS;0.0E0;0.0E0;VOLTS;0.0E0;0.0E0;9.9E37;9.9E37;0.0E0;0.0E0\n
    CursUnknown |-> << 87, 65, 86, 69, 70, 79, 82, 77, 59, 67, 72, 49, 59, 83,
      69, 67, 79, 78, 68, 83, 59, 48, 46, 48, 69, 48, 59, 48, 46, 48, 69, 48,
      59, 86, 79, 76, 84, 83, 59, 48, 46, 48, 69, 48, 59, 48, 46, 48, 69, 48,
      59, 57, 46, 57, 69, 51, 55, 59, 57, 46, 57, 69, 51, 55, 59, 48, 46, 48,
      69, 48, 59, 48, 46, 48, 69, 48, 10 >>,
    \* VBARS;CH2;SECONDS;-1.0E-3;1.0E-3;VOLTS;-2.0E0;1.5E0;5.0E-1;x;3.5E0;2.0E-3\n
    CursVbarsBad |-> << 86, 66, 65, 82, 83, 59, 67, 72, 50, 59, 83, 69, 67,
      79, 78, 68, 83, 59, 45, 49, 46, 48, 69, 45, 51, 59, 49, 46, 48, 69, 45,
      51, 59, 86, 79, 76, 84, 83, 59, 45, 50, 46, 48, 69, 48, 59, 49, 46, 53,
      69, 48, 59, 53, 46, 48, 69, 45, 49, 59, 120, 59, 51, 46, 53, 69, 48, 59,
      50, 46, 48, 69, 45, 51, 10 >>,
    \* OFF\n
    CursShort |-> << 79, 70, 70, 10 >>
  ]

\* the preamble of channel ch in acquisition acq: YOFf carries acq
PreambleText(ch, acq) ==
  (IF ch = 1 THEN Texts.PreHead1 ELSE Texts.PreHead2) \o DigitsOf(acq) \o Texts.PreTail

\* the sample value of channel ch in acquisition acq
SampleOf(ch, acq) == 10 * acq + ch

\* the curve of channel ch in acquisition acq, cut or stretched to n samples
CurveText(ch, acq, n) == Texts.CurveHead \o Fill(SampleOf(ch, acq), n) \o << 10 >>

GoodAnswers(s, acq) ==
  CASE s = 1 -> { Texts.ScaleOk1, Texts.ScaleOk2 }
    [] s = 2 -> { PreambleText(1, acq) }
    [] s = 3 -> { PreambleText(2, acq) }
    [] s = 4 -> { CurveText(1, acq, 2500) }
    [] s = 5 -> { CurveText(2, acq, 2500) }
    [] s = 6 -> { Texts.Meas123Ok }
    [] s = 7 -> { Texts.Meas45Ok }
    [] s = 8 -> { Texts.CursOff, Texts.CursHbars, Texts.CursVbars }

BadAnswers(s, acq) ==
  CASE s = 1 -> { Texts.ScaleBadFirst, Texts.ScaleShort, Texts.BadUtf8 }
    [] s = 2 -> { Texts.PreShort, Texts.BadUtf8 }
    [] s = 3 -> { Texts.PreShort, Texts.BadUtf8 }
    [] s = 4 -> { CurveText(1, acq, 2499), CurveText(1, acq, 2501), << 10 >> }
    [] s = 5 -> { CurveText(2, acq, 2499), CurveText(2, acq, 2501), << 10 >> }
    [] s = 6 -> { Texts.Meas123Bad }
    [] s = 7 -> { Texts.Meas45Short, Texts.BadUtf8 }
    [] s = 8 -> { Texts.CursUnknown, Texts.CursVbarsBad, Texts.CursShort, Texts.BadUtf8 }

\* words of the answers, by name
Words ==
  [
    \* OFF
    OFF |-> << 79, 70, 70 >>,
    \* HBARS
    HBARS |-> << 72, 66, 65, 82, 83 >>,
    \* VBARS
    VBARS |-> << 86, 66, 65, 82, 83 >>,
    \* WAVEFORM
    WAVEFORM |-> << 87, 65, 86, 69, 70, 79, 82, 77 >>,
    \* off
    off |-> << 111, 102, 102 >>,
    \* CH1
    CH1 |-> << 67, 72, 49 >>,
    \* CH2
    CH2 |-> << 67, 72, 50 >>,
    \* SECONDS
    SECONDS |-> << 83, 69, 67, 79, 78, 68, 83 >>,
    \* VOLTS
    VOLTS |-> << 86, 79, 76, 84, 83 >>,
    \* MEAN
    MEAN |-> << 77, 69, 65, 78 >>,
    \* FREQ
    FREQ |-> << 70, 82, 69, 81 >>,
    \* NONE
    NONE |-> << 78, 79, 78, 69 >>,
    \* "V"
    V |-> << 34, 86, 34 >>,
    \* "Hz"
    Hz |-> << 34, 72, 122, 34 >>,
    \* "s"
    s |-> << 34, 115, 34 >>,
    \* -1.0E-3
    t1 |-> << 45, 49, 46, 48, 69, 45, 51 >>,
    \* 1.0E-3
    t2 |-> << 49, 46, 48, 69, 45, 51 >>,
    \* -2.0E0
    h1 |-> << 45, 50, 46, 48, 69, 48 >>,
    \* 1.5E0
    h2 |-> << 49, 46, 53, 69, 48 >>,
    \* 3.5E0
    dV |-> << 51, 46, 53, 69, 48 >>,
    \* 2.0E-3
    dt |-> << 50, 46, 48, 69, 45, 51 >>,
    \* 5.0E-1
    half |-> << 53, 46, 48, 69, 45, 49 >>,
    \* 2.5E-1
    quarter |-> << 50, 46, 53, 69, 45, 49 >>,
    \* 9.9E37
    big |-> << 57, 46, 57, 69, 51, 55 >>,
    \* 0.0E0
    zero |-> << 48, 46, 48, 69, 48 >>,
    \* abc
    abc |-> << 97, 98, 99 >>,
    \* 1 after the file separator (U+001C), which float() does not skip
    fs1 |-> << 28, 49 >>
  ]

\* values of the CH1 scale: 0, the thresholds of metric_prefix and their
\* neighbours, values of 7 digits, values out of the range of the floats or
\* below that of their 53 bits, a value after a Unicode space
ScaleValues ==
  {
    \* 0.0E0
    << 48, 46, 48, 69, 48 >>,
    \* 0
    << 48 >>,
    \* -0.0
    << 45, 48, 46, 48 >>,
    \* 2.5E7
    << 50, 46, 53, 69, 55 >>,
    \* 1.0E6
    << 49, 46, 48, 69, 54 >>,
    \* 9.99999E5
    << 57, 46, 57, 57, 57, 57, 57, 69, 53 >>,
    \* 1.0E3
    << 49, 46, 48, 69, 51 >>,
    \* 9.99999E2
    << 57, 46, 57, 57, 57, 57, 57, 69, 50 >>,
    \* 1.0E0
    << 49, 46, 48, 69, 48 >>,
    \* 9.99999E-1
    << 57, 46, 57, 57, 57, 57, 57, 69, 45, 49 >>,
    \* 1.0E-3
    << 49, 46, 48, 69, 45, 51 >>,
    \* 9.99999E-4
    << 57, 46, 57, 57, 57, 57, 57, 69, 45, 52 >>,
    \* 1.0E-6
    << 49, 46, 48, 69, 45, 54 >>,
    \* 9.99999E-7
    << 57, 46, 57, 57, 57, 57, 57, 69, 45, 55 >>,
    \* 1.0E-9
    << 49, 46, 48, 69, 45, 57 >>,
    \* 9.99999E-10
    << 57, 46, 57, 57, 57, 57, 57, 69, 45, 49, 48 >>,
    \* 5.0E-10
    << 53, 46, 48, 69, 45, 49, 48 >>,
    \* 1.0E-12
    << 49, 46, 48, 69, 45, 49, 50 >>,
    \* -1.0E6
    << 45, 49, 46, 48, 69, 54 >>,
    \* -9.99999E5
    << 45, 57, 46, 57, 57, 57, 57, 57, 69, 53 >>,
    \* -1.0E3
    << 45, 49, 46, 48, 69, 51 >>,
    \* -1.0E0
    << 45, 49, 46, 48, 69, 48 >>,
    \* -1.0E-3
    << 45, 49, 46, 48, 69, 45, 51 >>,
    \* -1.0E-9
    << 45, 49, 46, 48, 69, 45, 57 >>,
    \* -5.0E-10
    << 45, 53, 46, 48, 69, 45, 49, 48 >>,
    \* 1234565, half way between 1.23456 M and 1.23457 M
    << 49, 50, 51, 52, 53, 54, 53 >>,
    \* 999999.5, below 1e6 and printed with 6 digits as 1000 k
    << 57, 57, 57, 57, 57, 57, 46, 53 >>,
    \* 1E400, above the largest float: inf
    << 49, 69, 52, 48, 48 >>,
    \* 1.8E308, which float() rounds to 2^1024: inf
    << 49, 46, 56, 69, 51, 48, 56 >>,
    \* -1E-400, below the smallest float: -0.0
    << 45, 49, 69, 45, 52, 48, 48 >>,
    \* 1E-320, the float 2024 * 2^-1074 of 11 bits, printed as 9.99989e-321
    << 49, 69, 45, 51, 50, 48 >>,
    \* 1.0E0 after a no-break space (U+00A0)
    << 194, 160, 49, 46, 48, 69, 48 >>
  }

\* values around the 9.9E9 sentinel, and a text that is no number
SentinelValues ==
  {
    \* 1.0E10
    << 49, 46, 48, 69, 49, 48 >>,
    \* -1.0E10
    << 45, 49, 46, 48, 69, 49, 48 >>,
    \* 9.9E9
    << 57, 46, 57, 69, 57 >>,
    \* 9.90001E9
    << 57, 46, 57, 48, 48, 48, 49, 69, 57 >>,
    \* 9.9E37
    << 57, 46, 57, 69, 51, 55 >>,
    \* -2.5E-3
    << 45, 50, 46, 53, 69, 45, 51 >>,
    \* abc
    << 97, 98, 99 >>
  }

\* ';'.join(list)
RECURSIVE Join(_, _)
Join(list, sep) ==
  IF list = << >> THEN << >>
  ELSE IF Len(list) = 1 THEN list[1]
  ELSE list[1] \o << sep >> \o Join(Tail(list), sep)

\* an answer: the fields joined by ';' and the newline that ends it
Line(list) == Join(list, 59) \o << 10 >>

\* the answer to the cursor query with the given mode, the voltages v1, v2 at
\* the vertical bars and the two deltas
CursLine(mode, v1, v2, dV, dt) ==
  Line(<< mode, Words.CH2, Words.SECONDS, Words.t1, Words.t2, Words.VOLTS,
          Words.h1, Words.h2, v1, v2, dV, dt >>)

\* one well-formed answer to each query of the cycle
UsualAnswers(s, acq) ==
  CASE s = 1 -> { Texts.ScaleOk1 }
    [] s = 8 -> { CursLine(Words.VBARS, Words.half, Words.quarter, Words.dV, Words.dt) }
    [] OTHER -> GoodAnswers(s, acq)

\* answers to the scale, measurement and cursor queries that cover the cases
\* of the decoding, given in the last cycle of a behaviour (the cycles before
\* it put values on the display)
UnusualAnswers(s, acq) ==
  IF acq < MaxCycles THEN { }
  ELSE CASE s = 1 -> { Line(<< x, Words.half, Words.t2 >>) :
                         x \in ScaleValues \cup { Words.fs1 } }
         [] s = 7 ->
              { Line(<< typ, uni, Words.CH2, val, Words.NONE, Words.s, Words.CH1, Words.zero >>) :
                  typ \in { Words.MEAN, Words.FREQ, Words.NONE },
                  uni \in { Words.V, Words.Hz },
                  val \in SentinelValues }
         [] s = 8 ->
              { CursLine(Words.VBARS, v1, v2, Words.dV, Words.dt) :
                  v1 \in SentinelValues, v2 \in SentinelValues }
              \cup { CursLine(Words.HBARS, v1, v2, dV, Words.dt) :
                       v1 \in { Words.half, Words.big },
                       v2 \in { Words.half, Words.big },
                       dV \in { Words.dV, Words.big, Words.abc } }
              \cup { CursLine(mode, v, v, dV, dV) :
                       mode \in { Words.OFF, Words.WAVEFORM, Words.off, << >> },
                       v \in { Words.half, Words.abc },
                       dV \in { Words.dV, Words.abc } }
              \cup { Line(<< Words.OFF, Words.CH1 >>), Line(<< Words.OFF >>),
                     Line(<< Words.OFF, Words.CH1, Words.SECONDS, Words.abc >>),
                     Line(<< Words.WAVEFORM >>), << 10 >> }
         [] OTHER -> { }

\* ------------------------------------------------------ decoding, read_data
\* One statement of read_data that may raise: ok tells whether it completes,
\* and if it does it sets the display element key to val ("nop" for a
\* statement that only evaluates).
Stmt(ok, key, val) == [ok |-> ok, key |-> key, val |-> val]

\* Run statements in order on the display d up to the first that raises.
RECURSIVE Run(_, _)
Run(stmts, d) ==
  IF stmts = << >> THEN [d |-> d, ok |-> TRUE]
  ELSE IF ~stmts[1].ok THEN [d |-> d, ok |-> FALSE]
  ELSE Run(Tail(stmts), [d EXCEPT ![stmts[1].key] = stmts[1].val])

\* list[i] exists and float(list[i]) returns (i counts from 0)
NumAt(list, i) == i < Len(list) /\ IsFloat(list[i + 1])

\* metric_prefix(float(list[i])), when NumAt(list, i)
PrefixAt(list, i) == IF NumAt(list, i) THEN metric_prefix(Float(list[i + 1])) ELSE << >>

AboveSentinelAt(list, i) == NumAt(list, i) /\ AboveSentinel(Float(list[i + 1]))

\* lines 197-208: each label is removed, then made anew from its field
ScaleStmts(sca) ==
  << Stmt(TRUE, "sca1", << >>),
     Stmt(NumAt(sca, 0), "sca1", << << 67, 72, 49, 32 >> \o PrefixAt(sca, 0) \o << 86 >> >>),
     Stmt(TRUE, "sca2", << >>),
     Stmt(NumAt(sca, 1), "sca2", << << 67, 72, 50, 32 >> \o PrefixAt(sca, 1) \o << 86 >> >>),
     Stmt(TRUE, "scam", << >>),
     Stmt(NumAt(sca, 2), "scam", << << 77, 32 >> \o PrefixAt(sca, 2) \o << 115 >> >>) >>

\* str.strip('"')
RECURSIVE StripQuotes(_)
StripQuotes(s) ==
  IF s # << >> /\ s[1] = 34 THEN StripQuotes(Tail(s))
  ELSE IF s # << >> /\ s[Len(s)] = 34 THEN StripQuotes(SubSeq(s, 1, Len(s) - 1))
  ELSE s

NoneText == << 78, 79, 78, 69 >>

MeasTextSentinelFirst(m, i) ==
  LET typ == m[i * 4 + 1]
      uni == m[i * 4 + 2]
      sou == m[i * 4 + 3]
      val == m[i * 4 + 4]
  IN sou \o << 32 >> \o typ \o << 32 >>
       \o (IF IsFloat(val) /\ AboveSentinel(Float(val)) THEN << 63 >>
           ELSE IF typ = NoneText THEN << >>
           ELSE metric_prefix(Float(val)) \o StripQuotes(uni))

\* lines 232-245 for slot i (from 0): '%s %s %s%s' % (sou, typ, val, uni)
MeasText(m, i) ==
  LET typ == m[i * 4 + 1]
      uni == m[i * 4 + 2]
      sou == m[i * 4 + 3]
      val == m[i * 4 + 4]
  IN sou \o << 32 >> \o typ \o << 32 >>
       \o (IF typ = NoneText THEN << >>
           ELSE IF AboveSentinel(Float(val)) THEN << 63 >>
           ELSE metric_prefix(Float(val)) \o StripQuotes(uni))

MeasOk(m, i) ==
  /\ i * 4 + 3 < Len(m)
  /\ m[i * 4 + 1] = NoneText \/ IsFloat(m[i * 4 + 4])

MeasKey(i) == << "meas1", "meas2", "meas3", "meas4", "meas5" >>[i + 1]

\* lines 231-245
MeasStmts(m) ==
  [i \in 1..5 |->
     Stmt(MeasOk(m, i - 1), MeasKey(i - 1),
          IF MeasOk(m, i - 1) THEN MeasText(m, i - 1) ELSE << >>)]

OffText == << 79, 70, 70 >>

HbarsText == << 72, 66, 65, 82, 83 >>

VbarsText == << 86, 66, 65, 82, 83 >>

\* line 64: the keys of cursors
CursorModes == { OffText, HbarsText, VbarsText }

\* line 64: cursors[mode]
CursorName(mode) ==
  IF mode = OffText THEN OffText
  ELSE IF mode = HbarsText THEN << 65, 77, 80, 76, 73, 84, 85, 68, 69 >>
  ELSE << 84, 73, 77, 69 >>

CurstStmtAnyMode(c) ==
  Stmt(Len(c) > 1, "curst",
       IF Len(c) > 1 THEN c[2] \o << 32 >> \o CursorName(c[1]) ELSE << >>)

\* line 250
CurstStmt(c) ==
  Stmt(Len(c) > 1 /\ c[1] \in CursorModes, "curst",
       IF Len(c) > 1 /\ c[1] \in CursorModes
         THEN c[2] \o << 32 >> \o CursorName(c[1]) ELSE << >>)

VbarsStmtsOneTest(c) ==
  << Stmt(NumAt(c, 8), "nop", << >>),
     Stmt(NumAt(c, 3), "curs1", PrefixAt(c, 3) \o << 115 >>),
     Stmt(TRUE, "curs2",
          IF AboveSentinelAt(c, 8) THEN << >> ELSE PrefixAt(c, 8) \o << 86 >>),
     Stmt(NumAt(c, 9), "nop", << >>),
     Stmt(NumAt(c, 4), "curs3", PrefixAt(c, 4) \o << 115 >>),
     Stmt(TRUE, "curs4",
          IF AboveSentinelAt(c, 8) THEN << >> ELSE PrefixAt(c, 9) \o << 86 >>),
     Stmt(NumAt(c, 11), "delta",
          << 100, 116, 32, 61, 32 >> \o PrefixAt(c, 11) \o << 115 >>) >>

\* lines 252-266
VbarsStmts(c) ==
  << Stmt(NumAt(c, 8), "nop", << >>),
     Stmt(NumAt(c, 3), "curs1", PrefixAt(c, 3) \o << 115 >>),
     Stmt(TRUE, "curs2",
          IF AboveSentinelAt(c, 8) THEN << >> ELSE PrefixAt(c, 8) \o << 86 >>),
     Stmt(NumAt(c, 9), "nop", << >>),
     Stmt(NumAt(c, 4), "curs3", PrefixAt(c, 4) \o << 115 >>),
     Stmt(TRUE, "curs4",
          IF AboveSentinelAt(c, 9) THEN << >> ELSE PrefixAt(c, 9) \o << 86 >>),
     Stmt(NumAt(c, 11), "delta",
          << 100, 116, 32, 61, 32 >> \o PrefixAt(c, 11) \o << 115 >>) >>

\* lines 268-272
HbarsStmts(c) ==
  << Stmt(NumAt(c, 6), "curs1", PrefixAt(c, 6) \o << 86 >>),
     Stmt(TRUE, "curs2", << >>),
     Stmt(NumAt(c, 7), "curs3", PrefixAt(c, 7) \o << 86 >>),
     Stmt(TRUE, "curs4", << >>),
     Stmt(NumAt(c, 10), "delta",
          << 100, 86, 32, 61, 32 >> \o PrefixAt(c, 10) \o << 86 >>) >>

OffStmtsPositionsOnly ==
  << Stmt(TRUE, "curs1", << >>), Stmt(TRUE, "curs2", << >>),
     Stmt(TRUE, "curs3", << >>), Stmt(TRUE, "curs4", << >>) >>

\* lines 274-278
OffStmts ==
  << Stmt(TRUE, "curs1", << >>), Stmt(TRUE, "curs2", << >>),
     Stmt(TRUE, "curs3", << >>), Stmt(TRUE, "curs4", << >>),
     Stmt(TRUE, "delta", << >>) >>

\* lines 250-278
CursStmts(c) ==
  << CurstStmt(c) >>
    \o (IF c[1] = VbarsText THEN VbarsStmts(c)
        ELSE IF c[1] = HbarsText THEN HbarsStmts(c)
        ELSE OffStmts)

\* the display elements read_data sets
Display ==
  [sca1 |-> sca1, sca2 |-> sca2, scam |-> scam,
   meas1 |-> meas[1], meas2 |-> meas[2], meas3 |-> meas[3], meas4 |-> meas[4],
   meas5 |-> meas[5], curst |-> curst, curs1 |-> curs[1], curs2 |-> curs[2],
   curs3 |-> curs[3], curs4 |-> curs[4], delta |-> delta, nop |-> << >>]

\* bytes.decode('utf-8').rsplit(';') then the statements; a text that does
\* not decode raises before any statement
TextStmts(text, stmts) ==
  IF Utf8Decodes(text) THEN stmts ELSE << Stmt(FALSE, "nop", << >>) >>

\* the statements of the step whose answer is in result: the scale step
\* (lines 196-208), the measurements (lines 229-245, on the first answer kept
\* in rd_result and the second), the cursors (lines 249-278)
StepStmts ==
  CASE step = 1 -> TextStmts(PySlice(result, 0, -1), ScaleStmts(Fields(result)))
    [] step = 7 -> LET whole == rd_result \o PySlice(result, 0, -1)
                   IN TextStmts(whole, MeasStmts(Split(whole, 59)))
    [] step = 8 -> TextStmts(PySlice(result, 0, -1), CursStmts(Fields(result)))
    [] OTHER -> << >>

\* ------------------------------------------------------------ the program
Init ==
  /\ os \in {"nt", "posix"}
  /\ exports \in BOOLEAN
  /\ device = "none"
  /\ pc = "open"
  /\ step = 0
  /\ rd_result = << >>
  /\ cycle = 0
  /\ nerrors = 0
  /\ faults = 0
  /\ InitTransport
  /\ InitFields

Goto(to) ==
  /\ pc' = to[1]
  /\ step' = to[2]

RaiseResume ==
  IF cycle = 0 THEN << "crash", step >>
  ELSE IF step < 8 THEN << "tx", step + 1 >>
  ELSE << "idle", 0 >>

\* where an exception goes: out of __init__ (nothing catches it), or to the
\* except clause of read_data (line 280)
Raise == IF cycle = 0 THEN << "crash", step >> ELSE << "except", step >>

AfterTransmitNoRead == IF step < 6 THEN << "tx", step + 1 >> ELSE << "rx", step >>

\* after transmit_command: set-up sends its first five commands back to back
\* (lines 137-141); every other command is followed by receive_result
AfterTransmit ==
  IF cycle = 0 /\ step < 6 THEN << "tx", step + 1 >> ELSE << "rx", step >>

\* after a step of read_data completes: the next command, or the return
AfterStep == IF step < 8 THEN << "tx", step + 1 >> ELSE << "idle", 0 >>

CommandCurvesSwapped ==
  IF cycle = 0 THEN SetupCommands[step]
  ELSE CycleCommands[IF step = 4 THEN 5 ELSE IF step = 5 THEN 4 ELSE step]

\* the command at the current position
Command == IF cycle = 0 THEN SetupCommands[step] ELSE CycleCommands[step]

\* the query of the cycle that the instrument recognises in a command
QueryOf(command) == CHOOSE s \in 1..Len(CycleCommands) : CycleCommands[s] = command

\* the command is a query (it ends with '?')
IsQuery(command) == command[Len(command)] = 63

\* the size argument of receive_result: 2507 for the curves, else None (0)
ExpectedSize == IF cycle > 0 /\ step \in {4, 5} THEN 2507 ELSE 0

\* lines 106-123: the first attempt to find or open the device
Open ==
  /\ pc = "open"
  /\ \E found \in BOOLEAN :
       /\ device' = IF found THEN "open" ELSE "none"
       /\ pc' = IF found THEN "configure" ELSE "dialog"
  /\ UNCHANGED << os, exports, step, rd_result, cycle, nerrors, faults, tvars, fields >>

\* lines 109-116, 124-135: the message box and the user's reply
Dialog ==
  /\ pc = "dialog"
  /\ \E reply \in {"Abort", "Retry", "Ignore"}, found \in BOOLEAN :
       CASE reply = "Abort" -> pc' = "exit" /\ device' = device
         [] reply = "Retry" ->
              /\ device' = IF found THEN "open" ELSE "none"
              /\ pc' = IF found THEN "configure" ELSE "dialog"
         [] reply = "Ignore" -> pc' = "configure" /\ device' = device
  /\ UNCHANGED << os, exports, step, rd_result, cycle, nerrors, faults, tvars, fields >>

\* lines 117 and 136: set_configuration() on 'nt' (AttributeError on None),
\* then the set-up commands if there is a device
Configure ==
  /\ pc = "configure"
  /\ IF os = "nt" /\ device = "none" THEN Goto(<< "crash", 0 >>)
     ELSE IF device = "open" THEN Goto(<< "tx", 1 >>)
     ELSE Goto(<< "idle", 0 >>)
  /\ UNCHANGED << os, exports, device, rd_result, cycle, nerrors, faults, tvars, fields >>

\* a call of transmit_command (lines 137-142, 195-248); the instrument puts
\* the answer to a query in its output queue: for the query q it recognises in
\* the command, a well-formed answer or, counted as a fault, a malformed one;
\* decoding selects the answers of the decoding specification
TransmitAnswering(decoding) ==
  /\ pc = "tx"
  /\ nhdr < MaxHeaders
  /\ \E written \in BOOLEAN :
       /\ written \/ faults < MaxFaults
       /\ transmit_command(Command, written)
       /\ IF ~written
            THEN /\ Goto(Raise)
                 /\ faults' = faults + 1
                 /\ UNCHANGED << dev, answer >>
          ELSE IF ~IsQuery(Command)
            THEN /\ Goto(AfterTransmit)
                 /\ faults' = faults
                 /\ UNCHANGED << dev, answer >>
          ELSE IF cycle = 0
            THEN /\ Goto(AfterTransmit)
                 /\ faults' = faults
                 /\ dev' = Texts.IdnText
                 /\ answer' = dev'
          ELSE \/ /\ Goto(AfterTransmit)
                  /\ faults' = faults
                  /\ dev' \in IF decoding THEN UsualAnswers(QueryOf(Command), cycle)
                                ELSE GoodAnswers(QueryOf(Command), cycle)
                  /\ answer' = dev'
               \/ /\ faults < MaxFaults
                  /\ Goto(AfterTransmit)
                  /\ faults' = faults + 1
                  /\ dev' \in IF decoding THEN UnusualAnswers(QueryOf(Command), cycle)
                                ELSE BadAnswers(QueryOf(Command), cycle)
                  /\ answer' = dev'
  /\ UNCHANGED << os, exports, device, rd_result, cycle, nerrors, result, stop, pkts, nreq,
                  fields >>

\* transmit_command against the instrument of GoodAnswers and BadAnswers
Transmit == TransmitAnswering(FALSE)

\* receive_result on the line transport (lines 168-171): readline(), or
\* read(size); what the read leaves of the answer stays in the stream, and
\* the instrument drops it when the next query arrives
ReceiveLine ==
  /\ pc = "rx"
  /\ os # "nt"
  /\ calls' = PushCall("rx")
  /\ \E read \in BOOLEAN :
       /\ read \/ faults < MaxFaults
       /\ IF read
            THEN /\ result' = IF ExpectedSize = 0 THEN ReadLine(dev)
                                ELSE ReadBytes(dev, ExpectedSize)
                 /\ dev' = SubSeq(dev, Len(result') + 1, Len(dev))
                 /\ faults' = faults
                 /\ Goto(<< "decode", step >>)
            ELSE /\ result' = << >>
                 /\ dev' = << >>
                 /\ faults' = faults + 1
                 /\ Goto(Raise)
  /\ UNCHANGED << os, exports, device, rd_result, cycle, nerrors, btag, wire, stop, lastOp,
                  lastCmd, nhdr, pkts, nreq, answer, fields >>

\* receive_result on the bulk transport: the call (lines 156-159)
ReceiveCall ==
  /\ pc = "rx"
  /\ os = "nt"
  /\ receive_enter
  /\ Goto(<< "rxloop", step >>)
  /\ UNCHANGED << os, exports, device, rd_result, cycle, nerrors, faults, btag, wire, dev,
                  answer, lastOp, lastCmd, nhdr, fields >>

\* receive_result on the bulk transport: one iteration of the loop (lines
\* 160-167), and the return when the packet ends the message
ReceiveLoop ==
  /\ pc = "rxloop"
  /\ stop = 0
  /\ nhdr < MaxHeaders
  /\ receive_request
  /\ \E read \in BOOLEAN :
       /\ read \/ faults < MaxFaults
       /\ IF read
            THEN LET p == QueuePacket(dev)
                 IN /\ receive_packet(DevicePacket(btag', p))
                    /\ pkts' = IF stop' # 0 THEN << >> ELSE Append(pkts, p)
                    /\ dev' = SubSeq(dev, p.size + 1, Len(dev))
                    /\ faults' = faults
                    /\ Goto(IF stop' # 0 THEN << "decode", step >> ELSE << "rxloop", step >>)
            ELSE /\ stop' = stop
                 /\ pkts' = << >>
                 /\ result' = << >>
                 /\ dev' = << >>
                 /\ faults' = faults + 1
                 /\ Goto(Raise)
  /\ UNCHANGED << os, exports, device, rd_result, cycle, nerrors, calls, answer, fields >>

SetDisplay(d) ==
  /\ sca1' = d.sca1
  /\ sca2' = d.sca2
  /\ scam' = d.scam
  /\ meas' = << d.meas1, d.meas2, d.meas3, d.meas4, d.meas5 >>
  /\ curst' = d.curst
  /\ curs' = << d.curs1, d.curs2, d.curs3, d.curs4 >>
  /\ delta' = d.delta

\* a step that runs statements on the display elements, then goes on or raises
RunStmts(stmts) ==
  LET r == Run(stmts, Display)
  IN /\ SetDisplay(r.d)
     /\ Goto(IF r.ok THEN AfterStep ELSE Raise)

DecodeFrame ==
  UNCHANGED << os, exports, device, cycle, nerrors, faults, btag, wire, dev, stop, lastOp,
               lastCmd, nhdr, pkts, nreq, calls, answer >>

\* line 143: print(self.receive_result()), the end of __init__
PrintIdn ==
  /\ pc = "decode"
  /\ cycle = 0
  /\ Goto(<< "idle", 0 >>)
  /\ result' = << >>
  /\ UNCHANGED << rd_result, fields >>
  /\ DecodeFrame

\* lines 196-209
DecodeScale ==
  /\ pc = "decode"
  /\ cycle > 0
  /\ step = 1
  /\ RunStmts(StepStmts)
  /\ result' = << >>
  /\ UNCHANGED << rd_result, format1, format2, buffer1, buffer2 >>
  /\ DecodeFrame

\* lines 212 and 214
DecodePreamble ==
  /\ pc = "decode"
  /\ cycle > 0
  /\ step \in {2, 3}
  /\ IF Utf8Decodes(PySlice(result, 0, -1))
       THEN /\ format1' = IF step = 2 THEN Fields(result) ELSE format1
            /\ format2' = IF step = 3 THEN Fields(result) ELSE format2
            /\ Goto(AfterStep)
       ELSE /\ UNCHANGED << format1, format2 >>
            /\ Goto(Raise)
  /\ result' = << >>
  /\ UNCHANGED << rd_result, sca1, sca2, scam, buffer1, buffer2, meas, curst, curs, delta >>
  /\ DecodeFrame

\* self.buffer[:] = data completes.  Data of another length resizes the
\* bytearray, which raises BufferError while an export of it is held: whether
\* the array np.frombuffer made of it (lines 73-74) holds one depends on the
\* numpy of the build.
SliceAssignOk(buffer, data, held) == Len(data) = Len(buffer) \/ ~held

\* lines 218-219 and 221-223
DecodeCurve ==
  /\ pc = "decode"
  /\ cycle > 0
  /\ step \in {4, 5}
  /\ LET data == PySlice(result, 6, -1)
         buffer == IF step = 4 THEN buffer1 ELSE buffer2
     IN IF SliceAssignOk(buffer, data, exports)
          THEN /\ buffer1' = IF step = 4 THEN data ELSE buffer1
               /\ buffer2' = IF step = 5 THEN data ELSE buffer2
               /\ Goto(AfterStep)
          ELSE /\ UNCHANGED << buffer1, buffer2 >>
               /\ Goto(Raise)
  /\ result' = << >>
  /\ UNCHANGED << rd_result, sca1, sca2, scam, format1, format2, meas, curst, curs, delta >>
  /\ DecodeFrame

\* line 227
KeepMeas ==
  /\ pc = "decode"
  /\ cycle > 0
  /\ step = 6
  /\ rd_result' = PySlice(result, 0, -1) \o << 59 >>
  /\ Goto(AfterStep)
  /\ result' = << >>
  /\ UNCHANGED fields
  /\ DecodeFrame

\* lines 229-246
DecodeMeas ==
  /\ pc = "decode"
  /\ cycle > 0
  /\ step = 7
  /\ RunStmts(StepStmts)
  /\ result' = << >>
  /\ rd_result' = << >>
  /\ UNCHANGED << format1, format2, buffer1, buffer2 >>
  /\ DecodeFrame

\* lines 249-279
DecodeCurs ==
  /\ pc = "decode"
  /\ cycle > 0
  /\ step = 8
  /\ RunStmts(StepStmts)
  /\ result' = << >>
  /\ UNCHANGED << rd_result, format1, format2, buffer1, buffer2 >>
  /\ DecodeFrame

\* lines 280-282: the error is printed and read_data returns
Except ==
  /\ pc = "except"
  /\ nerrors' = nerrors + 1
  /\ Goto(<< "idle", 0 >>)
  /\ rd_result' = << >>
  /\ UNCHANGED << os, exports, device, cycle, faults, tvars, fields >>

\* lines 174-175 and 192-195: the read button; without a device read_data
\* returns at once
read_data ==
  /\ pc = "idle"
  /\ IF device = "none"
       THEN UNCHANGED << pc, step, cycle >>
       ELSE /\ cycle < MaxCycles
            /\ cycle' = cycle + 1
            /\ Goto(<< "tx", 1 >>)
  /\ UNCHANGED << os, exports, device, rd_result, nerrors, faults, tvars, fields >>

Next ==
  \/ Open
  \/ Dialog
  \/ Configure
  \/ Transmit
  \/ ReceiveLine
  \/ ReceiveCall
  \/ ReceiveLoop
  \/ PrintIdn
  \/ DecodeScale
  \/ DecodePreamble
  \/ DecodeCurve
  \/ KeepMeas
  \/ DecodeMeas
  \/ DecodeCurs
  \/ Except
  \/ read_data

Spec == Init /\ [][Next]_vars

\* ------------------------------------- read_data against any answers
\* The session as set-up leaves it on the line transport (lines 136-143).
DecodeInit ==
  /\ os = "posix"
  /\ exports \in BOOLEAN
  /\ device = "open"
  /\ pc = "idle"
  /\ step = 0
  /\ rd_result = << >>
  /\ cycle = 0
  /\ nerrors = 0
  /\ faults = 0
  /\ btag = 0
  /\ wire = CmdIDN \o << 10 >>
  /\ dev = << >>
  /\ result = << >>
  /\ stop = 0
  /\ lastOp = "transmit"
  /\ lastCmd = CmdIDN
  /\ nhdr = 0
  /\ pkts = << >>
  /\ nreq = 0
  /\ calls = << "tx", "rx" >>
  /\ answer = Texts.IdnText
  /\ InitFields

\* read_data on that session, against the instrument of UsualAnswers and
\* UnusualAnswers
DecodeNext ==
  \/ read_data
  \/ TransmitAnswering(TRUE)
  \/ ReceiveLine
  \/ DecodeScale
  \/ DecodePreamble
  \/ DecodeCurve
  \/ KeepMeas
  \/ DecodeMeas
  \/ DecodeCurs
  \/ Except

DecodeSpec == DecodeInit /\ [][DecodeNext]_vars

\* ------------------------------------------------- the program: properties
\* the call of transmit_command made by this step raised
TransmitRaises == pc = "tx" /\ calls'[Len(calls')] = "txfail"

\* the call of receive_result made by this step raised
ReceiveRaises == pc \in {"rx", "rxloop"} /\ faults' = faults + 1

\* the statements that read_data runs on the answer in result raise: the
\* decode('utf-8'), a float(), an index past the list, cursors[...], or the
\* slice assignment to a sample buffer
DecodeRaises ==
  /\ pc = "decode"
  /\ CASE step \in {1, 7, 8} -> ~Run(StepStmts, Display).ok
       [] step \in {2, 3} -> ~Utf8Decodes(PySlice(result, 0, -1))
       [] step \in {4, 5} ->
            ~SliceAssignOk(IF step = 4 THEN buffer1 ELSE buffer2, PySlice(result, 6, -1), exports)
       [] OTHER -> FALSE

\* the last two calls are transmit_command calls, the first of which returned
TwoTransmits ==
  /\ Len(calls) = 2
  /\ calls[1] = "tx"
  /\ calls[2] \in {"tx", "txfail"}

\* C6 as stated: in set-up and in every acquisition cycle each
\* transmit_command call is followed by a receive_result call before the next
\* transmit_command call.
TransmitThenReceive == ~TwoTransmits

\* C6, amended: two transmit_command calls with no receive_result call
\* between them happen only in set-up, where the second is one of the set-up
\* commands after DESE 1; in an acquisition cycle every transmit_command call
\* that returns is followed by a receive_result call before the next
\* transmit_command call, and receive_result is only called after a query.
TransmitThenReceiveInCycles ==
  /\ TwoTransmits =>
       /\ cycle = 0
       /\ lastCmd \in { SetupCommands[i] : i \in 2..6 }
  /\ (cycle > 0 /\ pc = "tx" /\ step > 1) => calls[Len(calls)] = "rx"
  /\ pc \in {"rx", "rxloop"} => lastOp = "request" \/ IsQuery(lastCmd)

\* C6 witness: the last command of a cycle has been sent and its answer read,
\* after set-up sent DAT INIT right after HEAD 0
CycleAlternates ==
  /\ cycle = 1
  /\ pc = "decode"
  /\ step = 8
  /\ calls = << "tx", "rx" >>

\* C7: when a step of an acquisition cycle fails (transmit_command,
\* receive_result or a statement on the answer raises), control goes to the
\* except clause at once, with only the fields the statements before the
\* failing one wrote changed; the except clause reports the failure and
\* returns without sending a command or writing a field or buffer; and the
\* next read_data starts a new cycle at the scale command with the fields and
\* buffers as the failed cycle left them.
FailedCycleAbandoned ==
  [][ /\ (cycle > 0 /\ (TransmitRaises \/ ReceiveRaises \/ DecodeRaises)) =>
            /\ pc' = "except"
            /\ UNCHANGED << format1, format2, buffer1, buffer2, device >>
            /\ DecodeRaises => Display' = Run(StepStmts, Display).d
      /\ pc = "except" =>
            /\ pc' = "idle"
            /\ nerrors' = nerrors + 1
            /\ UNCHANGED << fields, device, btag, wire, nhdr, calls >>
      /\ (pc = "idle" /\ pc' # "idle") =>
            /\ pc' = "tx" /\ step' = 1
            /\ cycle' = cycle + 1
            /\ UNCHANGED << fields, device, btag, nerrors >>
      /\ (pc = "tx" /\ cycle > 0 /\ step = 1 /\ ~TransmitRaises) =>
            /\ lastCmd' = CmdScale
            /\ pc' = "rx"
    ]_vars

\* C7 witness: the second cycle has reached its last step after the first
\* cycle failed and was reported
CycleAfterFailure ==
  /\ cycle = 2
  /\ nerrors = 1
  /\ pc = "decode"
  /\ step = 8
  /\ calls = << "tx", "rx" >>

\* the values the statements of this step give display element k when they
\* complete
Decoded(k) ==
  { StepStmts[i].val : i \in { j \in 1..Len(StepStmts) : StepStmts[j].ok /\ StepStmts[j].key = k } }

\* C8 as stated: after a decode failure every display element shows the
\* value it showed before or a fully decoded value of this cycle, and no
\* scale label is removed.
DisplayKeptOnFailure ==
  [][ (cycle > 0 /\ DecodeRaises) =>
        /\ \A k \in {"sca1", "sca2", "scam"} :
             Display'[k] = Display[k] \/ (Display'[k] # << >> /\ Display'[k] \in Decoded(k))
        /\ \A k \in {"meas1", "meas2", "meas3", "meas4", "meas5", "curst",
                     "curs1", "curs2", "curs3", "curs4", "delta"} :
             Display'[k] = Display[k] \/ Display'[k] \in Decoded(k)
    ]_vars

\* C9 as stated: a preamble answer with fewer than 11 fields fails the cycle
\* at the preamble step and does not replace the stored preamble.
ShortPreambleRejected ==
  [][ (pc = "decode" /\ cycle > 0 /\ step \in {2, 3} /\ Len(Fields(result)) < 11) =>
        /\ pc' = "except"
        /\ UNCHANGED << format1, format2 >>
    ]_vars

\* the answer of the instrument to the last query, at the decode step: the
\* bytes receive_result returned and the bytes it left unread
Response == result \o dev

\* C10: both sample buffers hold exactly 2500 bytes in every reachable state,
\* and a curve response of the instrument that does not leave exactly 2500
\* bytes between its 6-byte prefix and its last byte fails the cycle and
\* leaves the buffers unchanged.
ResponseLengthChecked ==
  /\ [](Len(buffer1) = 2500 /\ Len(buffer2) = 2500)
  /\ [][ (pc = "decode" /\ cycle > 0 /\ step \in {4, 5}
           /\ Len(PySlice(Response, 6, -1)) # 2500) =>
             /\ pc' = "except"
             /\ UNCHANGED << buffer1, buffer2 >>
       ]_vars

\* C12: when the device cannot be opened the user chooses: abort ends the
\* process, retry tries to open again, and proceeding without a device gives,
\* on both transports, a running session that has no device, in which no
\* command is ever transmitted and read_data returns without changing state.
SessionWithoutDevice ==
  /\ [][/\ (pc = "dialog" /\ pc' = "exit") => device' = "none"
        /\ (pc = "dialog" /\ pc' = "dialog") => device' = "none"
        /\ (pc = "configure" /\ device = "none") => (pc' = "idle" /\ device' = "none")
        /\ (pc = "idle" /\ device = "none") => UNCHANGED vars]_vars
  /\ [](device = "none" => (calls = << >> /\ wire = << >> /\ btag = 0 /\ pc # "tx"))

\* the order of the commands of a cycle, as the claim lists them
FixedOrder ==
  << CmdScale, CmdPre1, CmdPre2, CmdCurve1, CmdCurve2, CmdMeas123, CmdMeas45, CmdCurs >>

\* every sample of the buffer b is the sample value of channel ch in
\* acquisition acq
SamplesOf(b, ch, acq) == \A i \in 1..Len(b) : b[i] = SampleOf(ch, acq)

\* C16: in a cycle, the k-th command transmitted is the k-th of the fixed
\* order (scale, CH1 preamble, CH2 preamble, CH1 curve, CH2 curve,
\* measurements 1-3, measurements 4-5, cursors); before every command but the
\* first, the last two transport calls are the previous transmit and exactly
\* one receive; a step that succeeds leads to the next command and the eighth
\* ends the cycle; the response to the CH1 preamble query is written to
\* format1 only and the CH2 one to format2 only, the response to the CH1
\* curve query to buffer1 only and the CH2 one to buffer2 only; and at the end
\* of a cycle in which no step failed each buffer holds the samples the
\* instrument sent for its channel in this cycle (2500 of them, if the arrays
\* hold exports of the buffers).
FixedOrderAndRouting ==
  [][cycle > 0 =>
       /\ (pc = "idle" /\ pc' # "idle") => (pc' = "tx" /\ step' = 1)
       /\ (pc = "tx" /\ pc' = "rx") =>
            /\ lastCmd' = FixedOrder[step]
            /\ step' = step
            /\ calls' = << (IF step = 1 THEN calls[Len(calls)] ELSE "rx"), "tx" >>
            /\ step > 1 => calls = << "tx", "rx" >>
       /\ (pc = "decode" /\ pc' # "except") =>
            /\ << pc', step' >> = IF step < 8 THEN << "tx", step + 1 >> ELSE << "idle", 0 >>
            /\ calls = << "tx", "rx" >>
            /\ step = 2 => (format1' = Fields(result) /\ UNCHANGED << format2, buffer1, buffer2 >>)
            /\ step = 3 => (format2' = Fields(result) /\ UNCHANGED << format1, buffer1, buffer2 >>)
            /\ step = 4 =>
                 /\ buffer1' = PySlice(result, 6, -1)
                 /\ SamplesOf(buffer1', 1, cycle)
                 /\ UNCHANGED << format1, format2, buffer2 >>
            /\ step = 5 =>
                 /\ buffer2' = PySlice(result, 6, -1)
                 /\ SamplesOf(buffer2', 2, cycle)
                 /\ UNCHANGED << format1, format2, buffer1 >>
            /\ step \notin 2..5 => UNCHANGED << format1, format2, buffer1, buffer2 >>
            /\ step = 8 =>
                 /\ SamplesOf(buffer1', 1, cycle)
                 /\ SamplesOf(buffer2', 2, cycle)
                 /\ exports => (Len(buffer1') = 2500 /\ Len(buffer2') = 2500)
                 /\ format1' \in { Fields(PreambleText(1, cycle)), Fields(Texts.PreShort) }
                 /\ format2' \in { Fields(PreambleText(2, cycle)), Fields(Texts.PreShort) }]_vars

\* C16 witness: the second cycle has ended without a failure after all eight
\* commands, on the bulk transport, and the fields hold its responses
SecondCycleComplete ==
  /\ pc = "idle"
  /\ os = "nt"
  /\ cycle = 2
  /\ nerrors = 0
  /\ calls = << "tx", "rx" >>
  /\ buffer1 = Fill(SampleOf(1, 2), 2500)
  /\ buffer2 = Fill(SampleOf(2, 2), 2500)
  /\ format1 = Fields(PreambleText(1, 2))
  /\ format2 = Fields(PreambleText(2, 2))

\* the preamble f and the buffer b are those of channel ch in acquisition a
\* (a = 0: the values set at construction); the preamble is told by its YOFf
\* field, which the instrument makes the number of the acquisition
FromAcquisition(f, b, ch, a) ==
  IF a = 0 THEN f[9] = << 48 >> /\ b = Zeros(2500)
  ELSE f[9] = DigitsOf(a) \o << 46, 48, 69, 48 >> /\ b = Fill(SampleOf(ch, a), 2500)

\* C19: whenever save_data can run (read_data is not running), and both
\* stored preambles have their eleven fields, the preamble and the buffer of
\* each channel come from the same acquisition cycle and the two buffers come
\* from the same cycle.
SavedFromOneAcquisition ==
  (pc = "idle" /\ Len(format1) = 11 /\ Len(format2) = 11) =>
    \E a \in 0..MaxCycles :
      /\ FromAcquisition(format1, buffer1, 1, a)
      /\ FromAcquisition(format2, buffer2, 2, a)

\* ------------------------------------------------- decoding: properties
\* the measurement step has completed: answer is the answer to the query for
\* slots 4 and 5, and the labels of the five slots are written
MeasDone == pc = "tx" /\ step = 8 /\ cycle > 0

\* the four fields kind, unit, source, value of slot 4 + i (i = 0, 1) in answer
SlotOf(i) == SubSeq(Fields(answer), 4 * i + 1, 4 * i + 4)

\* the text of a slot label that shows "?" for the value and no unit
QuestionLabel(slot) == slot[3] \o << 32 >> \o slot[1] \o << 32, 63 >>

\* C11 as stated: a slot whose value is above 9.9e9 in magnitude shows "?"
\* and no unit whatever its kind and unit, kind NONE included.
SentinelShownForEveryKind ==
  MeasDone =>
    \A i \in {0, 1} :
      (IsFloat(SlotOf(i)[4]) /\ AboveSentinel(Float(SlotOf(i)[4]))) =>
        meas[4 + i] = QuestionLabel(SlotOf(i))

\* C11, amended: a slot of kind NONE shows its source and kind with no value
\* and no unit whatever its value text; a slot of another kind shows "?" and
\* no unit exactly when its value is above 9.9e9 in magnitude, whatever its
\* unit text.
SentinelShownUnlessNone ==
  MeasDone =>
    \A i \in {0, 1} :
      LET slot == SlotOf(i)
      IN IF slot[1] = Words.NONE
           THEN meas[4 + i] = slot[3] \o << 32 >> \o Words.NONE \o << 32 >>
           ELSE /\ IsFloat(slot[4])
                /\ meas[4 + i] = QuestionLabel(slot) <=> AboveSentinel(Float(slot[4]))

\* C11 witness: slot 4 has kind NONE and value 1.0E10 and shows 'CH2 NONE '
NoneSlotWithSentinel ==
  /\ MeasDone
  /\ SlotOf(0)[1] = Words.NONE
  /\ SlotOf(0)[4] = << 49, 46, 48, 69, 49, 48 >>
  /\ meas[4] = Words.CH2 \o << 32 >> \o Words.NONE \o << 32 >>

\* the cursor step of a cycle is running on the answer to the cursor query
CursStep == cycle > 0 /\ step = 8 /\ pc \in {"rx", "decode", "except"}

\* the mode text of the answer to the cursor query
CursMode == Fields(answer)[1]

\* the five outputs of the cursor step: four positions and the delta
CursOutputs == << curs[1], curs[2], curs[3], curs[4], delta >>

\* C13: a cursor answer whose mode text is not OFF, HBARS or VBARS fails the
\* cursor step: decoding it raises, and the mode, position and delta fields
\* are the same before and after every step taken on that answer (the
\* blank-all branch is not taken).
UnknownModeFails ==
  [][(CursStep /\ CursMode \notin CursorModes) =>
       /\ UNCHANGED << curst, curs, delta >>
       /\ pc = "decode" => pc' = "except"]_vars

\* C13 witness: the answer with mode WAVEFORM has raised and the fields show
\* what the cycle before wrote
UnknownModeRaised ==
  /\ CursStep
  /\ pc = "except"
  /\ CursMode = Words.WAVEFORM
  /\ curst = Words.CH2 \o << 32 >> \o CursorName(Words.VBARS)
  /\ \A i \in 1..5 : CursOutputs[i] # << >>

\* the cursor answer has been received and is about to be decoded
CursDecoding == cycle > 0 /\ step = 8 /\ pc = "decode"

Blank == << << >>, << >>, << >>, << >>, << >> >>

\* C14 as stated: when the mode of the cursor answer is OFF the four positions
\* and the delta are empty after the cursor step, whatever else the answer
\* carries.
OffBlanksAll ==
  [][(CursDecoding /\ Fields(result)[1] = Words.OFF) => CursOutputs' = Blank]_vars

\* C14, amended: when the mode is OFF and the answer has a second field (the
\* source), the cursor step succeeds and leaves the four positions and the
\* delta empty, whatever position and delta fields follow; an answer that is
\* the mode OFF alone fails the step and leaves all cursor fields unchanged.
OffWithSourceBlanksAll ==
  [][(CursDecoding /\ Fields(result)[1] = Words.OFF) =>
       IF Len(Fields(result)) >= 2
         THEN /\ CursOutputs' = Blank
              /\ curst' = Fields(result)[2] \o << 32 >> \o Words.OFF
              /\ pc' = "idle"
         ELSE /\ UNCHANGED << curst, curs, delta >>
              /\ pc' = "except"]_vars

\* C14 witness: an OFF answer with non-numeric position fields was decoded in
\* a cycle after one that showed VBARS readouts, and the outputs are empty
OffBlankedReadouts ==
  /\ pc = "idle"
  /\ cycle = MaxCycles
  /\ nerrors = 0
  /\ CursMode = Words.OFF
  /\ Len(Fields(answer)) = 12
  /\ Fields(answer)[9] = Words.abc
  /\ curst = Words.CH2 \o << 32 >> \o Words.OFF
  /\ CursOutputs = Blank

\* the scale step has completed: answer is the answer to the scale query and
\* the three scale labels are written
ScaleDone == pc = "tx" /\ step = 2 /\ cycle > 0

\* the rows of the formatter's table below the zero row: the decimal exponent
\* of the lower bound, the exponent the value is scaled by, the prefix letter
MetricRows ==
  << [lo |-> 6, by |-> -6, letter |-> << 77 >>],
     [lo |-> 3, by |-> -3, letter |-> << 107 >>],
     [lo |-> 0, by |-> 0, letter |-> << >>],
     [lo |-> -3, by |-> 3, letter |-> << 109 >>],
     [lo |-> -6, by |-> 6, letter |-> << 117 >>],
     [lo |-> -9, by |-> 9, letter |-> << 110 >>] >>

\* the rows whose interval [10^lo, 10^lo of the row above) holds abs(x), x # 0
RowsHolding(x) ==
  { r \in 1..6 : /\ x.m # 0
                 /\ Magnitude(x) >= MetricRows[r].lo
                 /\ r > 1 => Magnitude(x) < MetricRows[r - 1].lo }

\* what the formatter gives for the finite number x if each row is an
\* interval closed at its lower bound and zero is rendered as zero
MetricText(x, zero) ==
  IF x.m = 0 THEN zero
  ELSE IF RowsHolding(x) = { } THEN FormatG(x) \o << 32 >>
  ELSE LET row == MetricRows[CHOOSE r \in RowsHolding(x) : TRUE]
       IN (IF row.by = 0 THEN FormatSpaceG(x) ELSE FormatG(Scale(x, row.by)))
            \o << 32 >> \o row.letter

\* the CH1 scale label after the scale step, if zero is rendered as zero,
\* for a finite scale (1E400, of which float() makes inf, is not one)
ScaleLabelled(zero) ==
  LET x == Float(Fields(answer)[1])
  IN x.kind = "num" =>
       /\ Cardinality(RowsHolding(x)) <= 1
       /\ RowsHolding(x) = { } <=> (x.m = 0 \/ Magnitude(x) < -9)
       /\ sca1 = << << 67, 72, 49, 32 >> \o MetricText(x, zero) \o << 86 >> >>

\* C15 as stated: the formatter takes the row whose interval holds the value,
\* each boundary belonging to the row it is the lower bound of; a non-zero
\* value below 1e-9 is unscaled with no prefix letter; exactly one row
\* applies; and 0.0 gives the literal "0".
MetricRowsZeroLiteral == ScaleDone => ScaleLabelled(<< 48 >>)

\* C15, amended: as stated, except that 0.0 gives "0 ", the digit 0 followed
\* by a space (like every other row, whose text ends with a space and the
\* prefix letter).
MetricRowsZeroSpace == ScaleDone => ScaleLabelled(<< 48, 32 >>)

\* C15 witness: the boundary 1.0E6 is shown as 'CH1 1 MV'
BoundaryInUpperRow ==
  /\ ScaleDone
  /\ Fields(answer)[1] = << 49, 46, 48, 69, 54 >>
  /\ sca1 = << << 67, 72, 49, 32, 49, 32, 77, 86 >> >>

\* field i (from 0) of the cursor answer being decoded, formatted with unit
Readout(i, unit) == metric_prefix(Float(Fields(result)[i + 1])) \o unit

\* C18: for a cursor answer of mode VBARS with numeric fields, both time
\* positions and the time delta are written, and voltage readout i (i = 1, 2)
\* is the formatted value exactly when its value is at most 9.9e9 in
\* magnitude and blank otherwise, whatever the other readout's value is; for
\* mode HBARS with numeric fields the two voltage positions and the voltage
\* delta are written, formatted whatever their magnitude, and the two
\* secondary readouts are blank.
BarsReadouts ==
  [][CursDecoding =>
       LET c == Fields(result)
       IN /\ (c[1] = Words.VBARS /\ \A i \in {3, 4, 8, 9, 11} : NumAt(c, i)) =>
               /\ pc' = "idle"
               /\ curs'[1] = Readout(3, << 115 >>)
               /\ curs'[3] = Readout(4, << 115 >>)
               /\ delta' = << 100, 116, 32, 61, 32 >> \o Readout(11, << 115 >>)
               /\ \A i \in {1, 2} :
                    curs'[2 * i] = IF AboveSentinel(Float(c[8 + i])) THEN << >>
                                   ELSE Readout(7 + i, << 86 >>)
          /\ (c[1] = Words.HBARS /\ \A i \in {6, 7, 10} : NumAt(c, i)) =>
               /\ pc' = "idle"
               /\ curs'[1] = Readout(6, << 86 >>)
               /\ curs'[3] = Readout(7, << 86 >>)
               /\ curs'[2] = << >>
               /\ curs'[4] = << >>
               /\ delta' = << 100, 86, 32, 61, 32 >> \o Readout(10, << 86 >>)
               /\ \A i \in {1, 3} : curs'[i] # << >>]_vars

\* C18 witness: a VBARS answer with voltages -2.5E-3 and 1.0E10 was decoded:
\* readout 1 shows '-2.5 mV', readout 2 is blank, both times are shown
OneReadoutBlank ==
  /\ pc = "idle"
  /\ cycle = MaxCycles
  /\ nerrors = 0
  /\ CursMode = Words.VBARS
  /\ Fields(answer)[9] = << 45, 50, 46, 53, 69, 45, 51 >>
  /\ Fields(answer)[10] = << 49, 46, 48, 69, 49, 48 >>
  /\ curs[2] = << 45, 50, 46, 53, 32, 109, 86 >>
  /\ curs[4] = << >>
  /\ curs[1] # << >>
  /\ curs[3] # << >>
  /\ delta # << >>

\* ------------------------------------------ bulk receive loop: properties
\* C17: on the bulk transport receive_result returns only after it has read a
\* packet whose end-of-message byte is non-zero, every packet read before it
\* had the byte zero, and once such a packet is read it requests no more and
\* returns; while the byte is zero it cannot return and the next request is
\* due whatever the number of packets read so far; every iteration appends
\* the packet's payload to the result; with a device that sets the byte the
\* call returns; with a device that never does, the call does not return and
\* goes on requesting, past the length of any well-formed response.
ReturnsExactlyOnEom ==
  /\ [][(pc = "h_rx" /\ pc' = "h_ready") =>
          /\ stop # 0
          /\ pkts # << >>
          /\ pkts[Len(pkts)].eom # 0
          /\ \A i \in 1..(Len(pkts) - 1) : pkts[i].eom = 0]_vars
  /\ [][(pc = "h_rx" /\ pc' = "h_rx" /\ nreq' # nreq) =>
          /\ stop = 0
          /\ nreq' = nreq + 1
          /\ result' = result \o pkts'[nreq'].payload
          /\ stop' = pkts'[nreq'].eom]_vars
  /\ []((pc = "h_rx" /\ stop # 0) =>
          (ENABLED HReceiveReturn /\ ~ENABLED EomReceiveLoop))
  /\ []((pc = "h_rx" /\ stop = 0) =>
          /\ ~ENABLED HReceiveReturn
          /\ nhdr < MaxCalls => ENABLED EomReceiveLoop)
  /\ [](faults > 0 => (pc = "h_rx" /\ stop = 0))
  /\ (pc = "h_rx" /\ faults = 0) ~> (pc = "h_ready")
  /\ (faults > 0) ~> (pc = "h_rx" /\ nhdr = MaxCalls /\ nreq >= MaxPackets)

\* C17 witness: the device never sets the byte, and the call has requested
\* more packets than a well-formed response has and holds all their payloads
LoopPastWellFormed ==
  /\ pc = "h_rx"
  /\ faults > 0
  /\ stop = 0
  /\ nreq > MaxPackets
  /\ Len(pkts) = nreq
  /\ result = Concat(pkts)
  /\ Len(result) >= nreq

====
